---- MODULE Spec2Model ----
(***************************************************************************)
(* Model of the Factor VM core as built for WebAssembly (FACTOR_WASM):     *)
(* tagged cells, the three-generation data heap with its collectors and    *)
(* slot visitor, the data-root anchors, the trampoline interpreter with    *)
(* its built-in handlers, and the kernel error path.                       *)
(*                                                                         *)
(* Memory is counted in allocation units (data_alignment); every object    *)
(* of the model occupies one unit and one card covers one unit.            *)
(***************************************************************************)
EXTENDS Integers, Sequences, FiniteSets, TLC

RECURSIVE factor_vm(_, _)

(* ------------------------------ bounds --------------------------------- *)
\* decks of the nursery
NurseryDecks == 1
\* decks of each aging semispace
AgingDecks == 1
\* decks of tenured space left free behind the boot image
SpareDecks == 4
\* deepest data stack at which the host still calls into the VM
MaxDepth == 2
\* calls the host makes into the VM
MaxRuns == 6
\* bits of a fixnum's value (28 on the 32-bit build)
FixnumBits == 5

(* --------------------------- small helpers ----------------------------- *)
Last(s) == s[Len(s)]
Front(s) == SubSeq(s, 1, Len(s) - 1)
Max2(a, b) == IF a >= b THEN a ELSE b
Min(xs) == CHOOSE x \in xs : \A y \in xs : x <= y
IndexOf(s, x) == CHOOSE i \in DOMAIN s : s[i] = x
SeqToSet(s) == {s[i] : i \in DOMAIN s}

(* ------------------------------ cells ---------------------------------- *)
Fix(n) == [tag |-> "fixnum", v |-> n]
\* a cell is a fixnum's bits above the tag bits; int64_t is two cells wide
TAG_BITS == 4
CellBits == FixnumBits + TAG_BITS
WideBits == 2 * CellBits
fixnum_max == 2 ^ (FixnumBits - 1) - 1
fixnum_min == 0 - 2 ^ (FixnumBits - 1)
\* n in two's complement of the given width
Wrap(n, bits) == ((n + 2 ^ (bits - 1)) % 2 ^ bits) - 2 ^ (bits - 1)
\* tag_fixnum shifts the tag bits in: the bits above the cell are lost
tag_fixnum(n) == Fix(Wrap(n, FixnumBits))
untag_fixnum(c) == c.v
\* C's / and %: the quotient is truncated toward zero
Abs(n) == IF n < 0 THEN 0 - n ELSE n
c_div(x, y) == IF (x < 0) = (y < 0) THEN Abs(x) \div Abs(y) ELSE 0 - (Abs(x) \div Abs(y))
c_rem(x, y) == x - y * c_div(x, y)
false_object == [tag |-> "f", v |-> 0]
Ptr(t, a) == [tag |-> t, v |-> a]
\* the fill pattern bump_allocator::flush leaves behind, read as a cell
BadCell == [tag |-> "bad", v |-> 0]
immediate_p(c) == c.tag \in {"fixnum", "f"}
to_boolean(c) == c # false_object
PointerTags == {"array", "quotation", "tuple", "wrapper", "byte_array", "string", "word",
                "dll"}

\* the number of each type tag
TagNumber ==
  [ fixnum |-> 0, f |-> 1, array |-> 2, float |-> 3, quotation |-> 4, bignum |-> 5,
    alien |-> 6, tuple |-> 7, wrapper |-> 8, byte_array |-> 9, callstack |-> 10,
    string |-> 11, word |-> 12, dll |-> 13 ]
TAG(c) == IF c.tag \in DOMAIN TagNumber THEN TagNumber[c.tag] ELSE 15

(* --------------------------- heap geometry ----------------------------- *)
cards_per_deck == 2
deck_size == cards_per_deck
data_start == 1

(* The boot image: names of its objects in address order. *)
ImageNames ==
  << "arr0",
     "s_call", "s_dip", "s_curry", "s_2curry", "s_curried", "s_box",
     "s_tuple_boa", "s_do_primitive", "s_value_w", "s_props_w", "s_drop",
     "s_fixnum_mod", "s_set_nth", "s_declare",
     "w_call", "w_dip", "w_curry", "w_2curry", "w_curried", "w_box",
     "w_tuple_boa", "w_do_primitive", "w_value_w", "w_props_w", "w_drop",
     "w_fixnum_mod", "w_set_nth", "w_declare",
     "l_curried", "l_box",
     "b_tuple_boa", "b_array", "b_full_gc", "b_minor_gc",
     "C0", "B0", "wr_box", "arr1",
     "q_nop", "a_nop", "q_handler", "a_handler",
     "q_curry_def", "a_curry_def", "q_2curry_def", "a_2curry_def",
     "q_tuple_boa_def", "a_tuple_boa_def",
     "q_mk", "a_mk", "q_mkdip", "a_mkdip", "q_recurry", "a_recurry",
     "q_store", "a_store", "q_props", "a_props", "q_setnth", "a_setnth", "q_drop", "a_drop",
     "q_fullgc", "a_fullgc", "q_minorgc", "a_minorgc",
     "q_mod0", "a_mod0", "q_badarray", "a_badarray",
     "q_2c", "a_2c", "q_cc", "a_cc", "q_plain", "a_plain",
     "b_unknown", "q_prim", "a_prim", "q_declare", "a_declare",
     "q_unknown", "a_unknown",
     "s_bi", "s_plus", "s_times", "s_fixnum_plus", "s_fixnum_times",
     "w_bi", "w_plus", "w_times", "w_fixnum_plus", "w_fixnum_times",
     "q_plus_def", "a_plus_def", "q_times_def", "a_times_def",
     "q_p", "a_p", "q_q", "a_q", "q_bi", "a_bi",
     "s_T", "s_U", "s_tuple", "s_m", "s_no_method", "s_mega",
     "w_T", "w_U", "w_tuple", "w_m", "w_no_method", "w_mega",
     "l_T", "l_U", "T0", "U0", "methods", "echelons", "table", "alist", "cache",
     "q_gen", "a_gen", "q_gen1", "a_gen1", "s_t", "w_t",
     "s_dup", "w_dup", "q_dup", "a_dup", "s_sub", "w_sub",
     "dll0", "q_dll", "a_dll",
     "s_2dip", "w_2dip", "s_3dip", "w_3dip",
     "s_loop", "w_loop", "q_f", "a_f",
     "s_composed", "w_composed", "l_composed", "K0", "C1",
     "s_recover", "w_recover", "q_try", "a_try",
     "startup" >>

ImageUnits == Len(ImageNames)
ImageDecks == (ImageUnits + deck_size - 1) \div deck_size
tenured_start == data_start
tenured_size == (ImageDecks + SpareDecks) * deck_size
tenured_end == tenured_start + tenured_size
aging_size == AgingDecks * deck_size
semi_a_start == tenured_end
semi_b_start == semi_a_start + aging_size
nursery_start == semi_b_start + aging_size
nursery_size == NurseryDecks * deck_size
nursery_end == nursery_start + nursery_size
data_end == nursery_end
Addr == data_start .. (data_end - 1)

Adr(n) == tenured_start + IndexOf(ImageNames, n) - 1
W(n) == Ptr("word", Adr(n))
Q(n) == Ptr("quotation", Adr(n))
A(n) == Ptr("array", Adr(n))
T(n) == Ptr("tuple", Adr(n))
Str(n) == Ptr("string", Adr(n))
BA(n) == Ptr("byte_array", Adr(n))

(* ------------------------------ objects -------------------------------- *)
\* h: "obj" live header, "fwd" forwarding pointer, "free" free block,
\* "bad" fill pattern.  slots are the cells slot_count() exposes.
MkObj(t, sl, d) == [h |-> "obj", type |-> t, slots |-> sl, data |-> d, to |-> 0, size |-> 1]
BadObj == [h |-> "bad", type |-> "bad", slots |-> << >>, data |-> "", to |-> 0, size |-> 0]
\* string slots: hashcode
MkString(d) == MkObj("string", << false_object >>, d)
MkByteArray(d) == MkObj("byte_array", << >>, d)
\* word slots: name, def, props, pic_def, subprimitive
MkWord(name, def, sub) == MkObj("word", <<name, def, false_object, false_object, sub>>, "")
MkArray(elems) == MkObj("array", elems, "")
MkQuotation(arr) == MkObj("quotation", <<arr>>, "")
\* tuple slots: layout, then the data cells
MkTuple(layout, fields) == MkObj("tuple", <<layout>> \o fields, "")
MkWrapper(c) == MkObj("wrapper", <<c>>, "")
(* ---------------------------- boot image ------------------------------- *)
\* name -> the string a word of the image is named by
WordNames ==
  [ w_call |-> "call", w_dip |-> "dip", w_curry |-> "curry",
    w_2curry |-> "2curry", w_curried |-> "curried", w_box |-> "box",
    w_tuple_boa |-> "<tuple-boa>", w_do_primitive |-> "do-primitive",
    w_value_w |-> "value<<", w_props_w |-> "props<<", w_drop |-> "drop",
    w_fixnum_mod |-> "fixnum-mod", w_set_nth |-> "set-nth",
    w_declare |-> "declare", w_bi |-> "bi", w_plus |-> "+", w_times |-> "*",
    w_fixnum_plus |-> "fixnum+", w_fixnum_times |-> "fixnum*",
    w_T |-> "T", w_U |-> "U", w_tuple |-> "tuple", w_m |-> "m",
    w_no_method |-> "no-method", w_mega |-> "mega-cache-lookup", w_t |-> "t",
    w_dup |-> "dup", w_sub |-> "sub", w_2dip |-> "2dip", w_3dip |-> "3dip",
    w_loop |-> "loop", w_composed |-> "composed",
    w_recover |-> "recover" ]

\* word -> the image quotation that is its definition (absent: f)
WordDefs ==
  [ w_curry |-> "q_curry_def", w_2curry |-> "q_2curry_def",
    w_tuple_boa |-> "q_tuple_boa_def",
    w_plus |-> "q_plus_def", w_times |-> "q_times_def",
    w_m |-> "q_handler", w_sub |-> "q_handler" ]

\* word -> the byte array of its subprimitive
WordSubprimitives == [ w_sub |-> "b_minor_gc" ]

\* quotation -> its elements
QuotBodies ==
  [ q_nop |-> << >>,
    q_handler |-> << Fix(0 - 1) >>,
    q_curry_def |-> << A("l_curried"), W("w_tuple_boa") >>,
    q_2curry_def |-> << W("w_curry"), W("w_curry") >>,
    q_tuple_boa_def |-> << BA("b_tuple_boa"), W("w_do_primitive") >>,
    q_mk |-> << T("C0"), W("w_call"), Q("q_nop"), W("w_curry") >>,
    q_mkdip |-> << Q("q_mk"), W("w_dip") >>,
    q_recurry |-> << Q("q_nop"), W("w_curry") >>,
    q_store |-> << T("B0"), W("w_value_w") >>,
    q_props |-> << Ptr("wrapper", Adr("wr_box")), W("w_props_w") >>,
    q_setnth |-> << Fix(0), A("arr1"), W("w_set_nth") >>,
    q_drop |-> << W("w_drop") >>,
    q_fullgc |-> << BA("b_full_gc"), W("w_do_primitive") >>,
    q_minorgc |-> << BA("b_minor_gc"), W("w_do_primitive") >>,
    q_mod0 |-> << Fix(7), Fix(0), W("w_fixnum_mod"), Fix(8) >>,
    q_badarray |-> << Fix(0 - 1), false_object, BA("b_array"),
                      W("w_do_primitive"), Fix(8), W("w_drop") >>,
    q_2c |-> << Q("q_nop"), W("w_2curry") >>,
    q_cc |-> << Q("q_handler"), W("w_curry"), W("w_call") >>,
    q_plain |-> << W("w_declare") >>,
    q_prim |-> << Fix(1), false_object, BA("b_array"), W("w_do_primitive"), Fix(8) >>,
    q_declare |-> << Fix(5), A("arr1"), W("w_declare"), Fix(8) >>,
    q_unknown |-> << Fix(5), BA("b_unknown"), W("w_do_primitive"), Fix(8) >>,
    q_plus_def |-> << W("w_fixnum_plus") >>,
    q_times_def |-> << W("w_fixnum_times") >>,
    q_p |-> << Fix(1), W("w_plus") >>,
    q_q |-> << Fix(2), W("w_times") >>,
    q_bi |-> << Fix(3), Q("q_p"), Q("q_q"), W("w_bi") >>,
    q_gen |-> << A("methods"), Fix(0), A("cache"), W("w_mega") >>,
    q_gen1 |-> << A("methods"), Fix(1), A("cache"), W("w_mega") >>,
    q_dup |-> << W("w_dup") >>,
    q_dll |-> << Fix(5), Ptr("dll", Adr("dll0")), Fix(8) >>,
    q_f |-> << false_object >>,
    q_try |-> << Fix(1), W("w_dup"), Fix(2) >> ]

PrimNames ==
  [ b_tuple_boa |-> "primitive_tuple_boa", b_array |-> "primitive_array",
    b_full_gc |-> "primitive_full_gc", b_minor_gc |-> "primitive_minor_gc",
    b_unknown |-> "primitive_unknown" ]

\* the quotations the host may run, all held by the startup array
Programs ==
  << "q_mk", "q_mkdip", "q_recurry", "q_store", "q_props", "q_setnth",
     "q_drop", "q_fullgc", "q_minorgc", "q_mod0", "q_badarray", "q_2c", "q_cc",
     "q_plain", "q_prim", "q_declare", "q_unknown", "q_bi", "q_gen", "q_gen1", "q_dup", "q_dll", "q_f", "q_try" >>

\* words the host executes by name
HostWords == << "w_sub", "w_2dip", "w_3dip", "w_loop", "w_recover" >>

ArrayOf(q) == "a_" \o SubSeq(q, 3, Len(q))

ImageObj(n) ==
  LET k == SubSeq(n, 1, 2) IN
  CASE k = "s_" -> MkString(WordNames["w_" \o SubSeq(n, 3, Len(n))])
    [] k = "w_" -> MkWord(Str("s_" \o SubSeq(n, 3, Len(n))),
                          IF n \in DOMAIN WordDefs THEN Q(WordDefs[n])
                          ELSE false_object,
                          IF n \in DOMAIN WordSubprimitives THEN BA(WordSubprimitives[n])
                          ELSE false_object)
    [] k = "b_" -> MkByteArray(PrimNames[n])
    [] k = "q_" -> MkQuotation(A(ArrayOf(n)))
    [] k = "a_" -> MkArray(QuotBodies["q_" \o SubSeq(n, 3, Len(n))])
    [] n = "dll0" -> MkObj("dll", << BA("b_array") >>, "")
    [] n = "l_composed" -> MkArray(<< W("w_composed"), Fix(2), Fix(1) >>)
    [] n = "K0" -> MkTuple(A("l_composed"), << Q("q_handler"), Q("q_dup") >>)
    [] n = "C1" -> MkTuple(A("l_curried"), << Fix(7), Q("q_dup") >>)
    [] n = "l_curried" -> MkArray(<< W("w_curried"), Fix(2), Fix(1) >>)
    [] n = "l_box" -> MkArray(<< W("w_box"), Fix(1), Fix(1) >>)
    [] n = "C0" -> MkTuple(A("l_curried"), << Fix(7), Q("q_nop") >>)
    [] n = "B0" -> MkTuple(A("l_box"), << false_object >>)
    [] n = "wr_box" -> MkWrapper(W("w_box"))
    [] n = "arr0" -> MkArray(<< >>)
    [] n = "arr1" -> MkArray(<< false_object >>)
    \* tuple classes T and U, each one echelon above tuple: the layout holds
    \* class, size, echelon and a (superclass, hashcode) pair per echelon
    [] n = "l_T" -> MkArray(<< W("w_T"), Fix(1), Fix(1),
                              W("w_tuple"), Fix(0), W("w_T"), Fix(2) >>)
    [] n = "l_U" -> MkArray(<< W("w_U"), Fix(1), Fix(1),
                              W("w_tuple"), Fix(0), W("w_U"), Fix(3) >>)
    [] n = "T0" -> MkTuple(A("l_T"), << Fix(1) >>)
    [] n = "U0" -> MkTuple(A("l_U"), << Fix(2) >>)
    \* the methods of a generic word, by type tag: T has the method m,
    \* strings dispatch on a predicate, slot 0 holds no-method
    [] n = "methods" -> MkArray([i \in 1 .. 14 |->
                                  CASE i = TagNumber["tuple"] + 1 -> A("echelons")
                                    [] i = TagNumber["string"] + 1 -> A("arr1")
                                    [] i = TagNumber["word"] + 1 -> A("arr1")
                                    [] i = TagNumber["array"] + 1 -> W("w_m")
                                    [] OTHER -> W("w_no_method")])
    [] n = "echelons" -> MkArray(<< false_object, A("table") >>)
    [] n = "table" -> MkArray(<< A("alist"), false_object >>)
    [] n = "alist" -> MkArray(<< W("w_T"), W("w_m") >>)
    [] n = "cache" -> MkArray(<< false_object, false_object, false_object, false_object >>)
    \* the global object: the startup quotations and the instances
    [] n = "startup" -> MkArray([i \in DOMAIN Programs |-> Q(Programs[i])]
                                \o << T("T0"), T("U0"), T("K0"), T("C1") >>
                                \o [i \in DOMAIN HostWords |-> W(HostWords[i])])

(* ------------------------- allocators and cards ------------------------ *)
\* free_list_allocator constants, scaled to allocation units
free_list_count == 2
allocation_page_size == 2

SpecialNames ==
  << "JIT_PRIMITIVE_WORD", "JIT_DECLARE_WORD", "ERROR_HANDLER_QUOT", "OBJ_GLOBAL",
     "OBJ_CANONICAL_TRUE" >>
SO(S, n) == S.special_objects[IndexOf(SpecialNames, n)]

card_points_to_nursery == {"nursery"}
card_points_to_aging == {"aging"}
card_mark_mask == {"nursery", "aging"}
DeckOf(a) == (a - data_start) \div cards_per_deck

nursery_contains_p(a) == a >= nursery_start /\ a < nursery_end
aging_end(S) == S.aging_start + aging_size
aging_contains_p(S, a) == a >= S.aging_start /\ a < aging_end(S)
tenured_contains_p(a) == a >= tenured_start /\ a < tenured_end
semispace_start(S) == IF S.aging_start = semi_a_start THEN semi_b_start ELSE semi_a_start
semispace_contains_p(S, a) == a >= semispace_start(S) /\ a < semispace_start(S) + aging_size
ObjAt(S, a) == IF a \in Addr THEN S.mem[a] ELSE BadObj

\* a fatal error that returns to its caller
fatal_error_returning(S, msg) == S

fatal_error(S, msg) == [S EXCEPT !.status = "fatal", !.fatal_msg = msg]

make_free(S, a, n) == [S EXCEPT !.mem[a].h = "free", !.mem[a].size = n]

\* position at which std::multiset::insert puts a block of size n
LargeInsertPos(S, n) ==
  Cardinality({i \in DOMAIN S.large_blocks : S.mem[S.large_blocks[i]].size <= n})

add_to_free_list(S, a) ==
  LET n == S.mem[a].size
      S1 == [S EXCEPT !.free_block_count = @ + 1, !.free_space = @ + n]
      k == LargeInsertPos(S, n)
  IN IF n < free_list_count
     THEN [S1 EXCEPT !.small_blocks[n] = Append(@, a)]
     ELSE [S1 EXCEPT !.large_blocks =
              SubSeq(@, 1, k) \o <<a>> \o SubSeq(@, k + 1, Len(@))]

clear_free_list(S) ==
  [S EXCEPT !.small_blocks = [i \in 0 .. (free_list_count - 1) |-> << >>],
            !.large_blocks = << >>, !.free_block_count = 0, !.free_space = 0]

initial_free_list(S, occupied) ==
  LET S1 == clear_free_list(S)
      last_block == tenured_start + occupied
  IN IF occupied # tenured_end - tenured_start
     THEN add_to_free_list(make_free(S1, last_block, tenured_end - last_block), last_block)
     ELSE S1

split_free_block(S, a, n) ==
  IF S.mem[a].size # n
  THEN LET S1 == make_free(S, a + n, S.mem[a].size - n)
           S2 == make_free(S1, a, n)
       IN add_to_free_list(S2, a + n)
  ELSE S

RECURSIVE CarvePieces(_, _, _, _)
CarvePieces(S, a, offset, n) ==
  IF offset >= allocation_page_size THEN S
  ELSE CarvePieces(add_to_free_list(make_free(S, a + offset, n), a + offset),
                   a, offset + n, n)

\* find_free_block for a large request: result a = 0 is NULL
find_large_block(S, n) ==
  LET fit == {i \in DOMAIN S.large_blocks : S.mem[S.large_blocks[i]].size >= n} IN
  IF fit = {} THEN [S |-> S, a |-> 0]
  ELSE LET i == CHOOSE j \in fit : \A k \in fit : j <= k
           b == S.large_blocks[i]
       IN [S |-> [S EXCEPT !.large_blocks = SubSeq(@, 1, i - 1) \o SubSeq(@, i + 1, Len(@)),
                           !.free_block_count = @ - 1,
                           !.free_space = @ - S.mem[b].size],
           a |-> b]

\* find_free_block for a request of n units below free_list_count
find_free_block(S, n) ==
  LET large == find_large_block(S, allocation_page_size)
      S1 == IF S.small_blocks[n] # << >> THEN S
            ELSE IF large.a = 0 THEN S
            ELSE CarvePieces(split_free_block(large.S, large.a, allocation_page_size),
                             large.a, 0, n)
      blocks == S1.small_blocks[n]
  IN IF blocks = << >> THEN [S |-> S, a |-> 0]
     ELSE [S |-> [S1 EXCEPT !.small_blocks[n] = Front(blocks),
                            !.free_block_count = @ - 1,
                            !.free_space = @ - S1.mem[Last(blocks)].size],
           a |-> Last(blocks)]

\* tenured_space::allot of one unit
tenured_allot(S) ==
  LET r == factor_vm("find_free_block", << S, 1 >>) IN
  IF r.a # 0 THEN [S |-> split_free_block(r.S, r.a, 1), a |-> r.a] ELSE r

largest_free_block(S) ==
  IF S.large_blocks # << >> THEN S.mem[Last(S.large_blocks)].size
  ELSE LET ne == {i \in DOMAIN S.small_blocks : S.small_blocks[i] # << >>} IN
       IF ne = {} THEN 0
       ELSE S.mem[Last(S.small_blocks[CHOOSE i \in ne : \A j \in ne : i >= j])].size

\* aging_space::allot of one unit
aging_allot(S) ==
  IF S.aging_here + 1 > aging_end(S) THEN [S |-> S, a |-> 0]
  ELSE [S |-> [S EXCEPT !.aging_here = @ + 1], a |-> S.aging_here]

\* bump_allocator::allot of n units for the nursery: here moves, h is returned
nursery_allot(S, n) ==
  [S |-> [S EXCEPT !.nursery_here = @ + n], a |-> S.nursery_here]

\* aging_space::allot of n units
aging_space_allot(S, n) ==
  IF S.aging_here + n > aging_end(S) THEN [S |-> S, a |-> 0]
  ELSE [S |-> [S EXCEPT !.aging_here = @ + n], a |-> S.aging_here]

\* free_list_allocator::allot of n units, as tenured_space::allot calls it
tenured_space_allot(S, n) ==
  LET r == IF n < free_list_count THEN factor_vm("find_free_block", << S, n >>)
           ELSE find_large_block(S, n)
  IN IF r.a # 0 THEN [S |-> split_free_block(r.S, r.a, n), a |-> r.a] ELSE r

\* bump_allocator::flush
FlushRange(S, lo, hi) ==
  [S EXCEPT !.mem = [a \in Addr |-> IF a >= lo /\ a < hi THEN BadObj ELSE @[a]]]

(* ------------- free_list_allocator<Block>, sizes in bytes -------------- *)
\* a region with the proportions of free_list.hpp: the small buckets end
\* below the page size (free_list_count * data_alignment < allocation_page_size)
RegionAlignment == 2
RegionBuckets == 3
RegionPage == 8
RegionStart == 2
RegionSize == 12
RegionEnd == RegionStart + RegionSize
RegionAddr == {a \in RegionStart .. (RegionEnd - 1) : a % RegionAlignment = 0}
NoBlock == [size |-> 0, free |-> FALSE]
NoRegionAllot == [at |-> FALSE, size |-> 0, a |-> 0, existed |-> FALSE]

align(n, k) == ((n + k - 1) \div k) * k

\* the blocks in the small buckets and the large-block set, bucket by bucket
RECURSIVE SmallListed(_, _)
SmallListed(R, i) ==
  IF i >= RegionBuckets THEN << >> ELSE R.small_blocks[i] \o SmallListed(R, i + 1)
Listed(R) == SmallListed(R, 0) \o R.large_blocks

block_make_free(R, a, n) == [R EXCEPT !.heap[a] = [size |-> n, free |-> TRUE]]

region_clear_free_list(R) ==
  [R EXCEPT !.small_blocks = [i \in 0 .. (RegionBuckets - 1) |-> << >>],
            !.large_blocks = << >>, !.free_block_count = 0, !.free_space = 0]

\* a bucket index that is the size itself, whatever the alignment
region_add_by_size(R, a) ==
  LET n == R.heap[a].size
      R1 == [R EXCEPT !.free_block_count = @ + 1, !.free_space = @ + n]
      k == Cardinality({i \in DOMAIN R.large_blocks : R.heap[R.large_blocks[i]].size <= n})
  IN IF n < RegionBuckets
     THEN [R1 EXCEPT !.small_blocks[n] = Append(@, a)]
     ELSE [R1 EXCEPT !.large_blocks =
              SubSeq(@, 1, k) \o <<a>> \o SubSeq(@, k + 1, Len(@))]

region_add_to_free_list(R, a) ==
  LET n == R.heap[a].size
      R1 == [R EXCEPT !.free_block_count = @ + 1, !.free_space = @ + n]
      k == Cardinality({i \in DOMAIN R.large_blocks : R.heap[R.large_blocks[i]].size <= n})
  IN IF n < RegionBuckets * RegionAlignment
     THEN [R1 EXCEPT !.small_blocks[n \div RegionAlignment] = Append(@, a)]
     ELSE [R1 EXCEPT !.large_blocks =
              SubSeq(@, 1, k) \o <<a>> \o SubSeq(@, k + 1, Len(@))]

region_initial_free_list(R, occupied) ==
  LET R1 == region_clear_free_list(R)
      last_block == RegionStart + occupied
  IN IF occupied # RegionEnd - RegionStart
     THEN region_add_to_free_list(block_make_free(R1, last_block, RegionEnd - last_block),
                                  last_block)
     ELSE R1

\* free_list_allocator's constructor
FreshRegion ==
  region_initial_free_list(
    [ heap |-> [a \in RegionAddr |-> NoBlock],
      small_blocks |-> [i \in 0 .. (RegionBuckets - 1) |-> << >>],
      large_blocks |-> << >>, free_block_count |-> 0, free_space |-> 0,
      allotted |-> NoRegionAllot ], 0)

region_split_free_block(R, a, n) ==
  IF R.heap[a].size # n
  THEN LET R1 == block_make_free(R, a + n, R.heap[a].size - n)
           R2 == block_make_free(R1, a, n)
       IN region_add_to_free_list(R2, a + n)
  ELSE R

\* the loop that splits the page-sized block into pieces of n bytes
RECURSIVE region_carve(_, _, _, _, _)
region_carve(R, a, offset, large_block_size, n) ==
  IF offset >= large_block_size THEN R
  ELSE region_carve(region_add_to_free_list(block_make_free(R, a + offset, n), a + offset),
                    a, offset + n, large_block_size, n)

\* result a = 0 is NULL
RECURSIVE region_find_free_block(_, _)
region_find_free_block(R, size) ==
  LET bucket == size \div RegionAlignment
      large_block_size == ((RegionPage + size - 1) \div size) * size
      large == region_find_free_block(R, large_block_size)
      R1 == IF R.small_blocks[bucket] # << >> THEN R
            ELSE region_carve(region_split_free_block(large.R, large.a, large_block_size),
                              large.a, 0, large_block_size, size)
      blocks == R1.small_blocks[bucket]
      fit == {i \in DOMAIN R.large_blocks : R.heap[R.large_blocks[i]].size >= size}
      first == CHOOSE j \in fit : \A k \in fit : j <= k
      b == R.large_blocks[first]
  IN IF bucket < RegionBuckets
     THEN IF R.small_blocks[bucket] = << >> /\ large.a = 0 THEN [R |-> R, a |-> 0]
          ELSE [R |-> [R1 EXCEPT !.small_blocks[bucket] = Front(blocks),
                                 !.free_block_count = @ - 1,
                                 !.free_space = @ - R1.heap[Last(blocks)].size],
                a |-> Last(blocks)]
     ELSE IF fit = {} THEN [R |-> R, a |-> 0]
          ELSE [R |-> [R EXCEPT !.large_blocks =
                                   SubSeq(@, 1, first - 1) \o SubSeq(@, first + 1, Len(@)),
                                !.free_block_count = @ - 1,
                                !.free_space = @ - R.heap[b].size],
                a |-> b]

region_allot(R, size) ==
  LET aligned == align(size, RegionAlignment)
      r == region_find_free_block(R, aligned)
  IN IF r.a # 0 THEN [R |-> region_split_free_block(r.R, r.a, aligned), a |-> r.a]
     ELSE [R |-> R, a |-> 0]

\* free that lists the block and leaves free_space as it was
region_free_uncounted(R, a) ==
  [region_add_to_free_list(block_make_free(R, a, R.heap[a].size), a)
     EXCEPT !.free_space = R.free_space]

region_free(R, a) ==
  region_add_to_free_list(block_make_free(R, a, R.heap[a].size), a)

\* the bytes covered by the blocks at the addresses bs
Covered(R, bs) == UNION {b .. (b + R.heap[b].size - 1) : b \in bs}

\* sweep from address a on: every run of unmarked bytes becomes one free block
RECURSIVE region_sweep_from(_, _, _)
region_sweep_from(R, a, marked) ==
  LET unmarked == {b \in RegionAddr : b >= a /\ b \notin Covered(R, marked)}
      start == Min(unmarked)
      n == Min({b \in start .. RegionEnd : b = RegionEnd \/ b \in marked}) - start
      R1 == [R EXCEPT !.heap = [b \in RegionAddr |->
                                  IF b > start /\ b < start + n THEN NoBlock ELSE @[b]]]
  IN IF unmarked = {} THEN R
     ELSE region_sweep_from(region_add_to_free_list(block_make_free(R1, start, n), start),
                            start + n, marked)

region_sweep(R, marked) == region_sweep_from(region_clear_free_list(R), RegionStart, marked)

\* compact: the marked blocks slide to the start in address order, one free
\* block is left behind them
region_compact(R, marked) ==
  LET dest(b) == RegionStart + Cardinality(Covered(R, {c \in marked : c < b}))
      moved == [a \in RegionAddr |->
                  IF \E b \in marked : dest(b) = a
                  THEN R.heap[CHOOSE b \in marked : dest(b) = a]
                  ELSE NoBlock]
  IN region_initial_free_list([R EXCEPT !.heap = moved], Cardinality(Covered(R, marked)))

(* ------------------------------ copiers -------------------------------- *)
forwarding_pointer_p(S, a) == ObjAt(S, a).h = "fwd"

RECURSIVE follow_forwarding(_, _)
follow_forwarding(S, a) ==
  IF forwarding_pointer_p(S, a) THEN follow_forwarding(S, S.mem[a].to) ELSE a

\* memcpy(newpointer, obj, size); obj->forward_to(newpointer)
\* copies is history: from, to and the collection of every copy of this gc()
copy_and_forward(S, from, to) ==
  [S EXCEPT !.mem[to] = S.mem[from], !.mem[from].h = "fwd", !.mem[from].to = to,
            !.copies = Append(@, << from, to, S.current_gc >>)]

\* the tail shared by nursery_copier and to_aging_copier: copy into aging,
\* else into tenured, else die
copy_to_aging_or_tenured(S, obj) ==
  LET ra == aging_allot(S)
      rt == factor_vm("tenured_allot", << S >>)
  IN IF ObjAt(S, obj).h # "obj"
     THEN [S |-> fatal_error(S, "Out of aging space on wasm"), a |-> obj]
     ELSE IF ra.a # 0 THEN [S |-> copy_and_forward(ra.S, obj, ra.a), a |-> ra.a]
     ELSE IF rt.a # 0 THEN [S |-> copy_and_forward(rt.S, obj, rt.a), a |-> rt.a]
     ELSE [S |-> fatal_error(S, "Out of aging space on wasm"), a |-> obj]

\* fixups is history: the forwarded objects this gc() met again, each with
\* the address the reference to it was given
note_fixup(S, a, obj) == [S EXCEPT !.fixups = Append(@, << a, obj >>)]

nursery_copier_fixup_data(S, a) ==
  LET obj == follow_forwarding(S, a) IN
  IF ~nursery_contains_p(a) THEN [S |-> S, a |-> a]
  ELSE IF ~nursery_contains_p(obj) THEN [S |-> note_fixup(S, a, obj), a |-> obj]
  ELSE factor_vm("copy_to_aging_or_tenured", << S, obj >>)

to_aging_copier_fixup_data(S, a) ==
  LET obj == follow_forwarding(S, a) IN
  IF aging_contains_p(S, a) \/ tenured_contains_p(a) THEN [S |-> S, a |-> a]
  ELSE IF aging_contains_p(S, obj) \/ tenured_contains_p(obj)
    THEN [S |-> note_fixup(S, a, obj), a |-> obj]
  ELSE factor_vm("copy_to_aging_or_tenured", << S, obj >>)

\* set_marked_p and mark_stack->push_back for a tenured object not yet marked
mark_and_push(S, a) ==
  IF a \in S.marked THEN S
  ELSE [S EXCEPT !.marked = @ \cup {a}, !.mark_stack = Append(@, a)]

nursery_contains_allocated_p(S, a) == a >= nursery_start /\ a < S.nursery_here
aging_contains_allocated_p(S, a) == a >= S.aging_start /\ a < S.aging_here

full_collection_copier_fixup_data(S, a) ==
  LET obj == follow_forwarding(S, a)
      r == factor_vm("tenured_allot", << S >>)
  IN IF ~(nursery_contains_allocated_p(S, a) \/ aging_contains_allocated_p(S, a)
          \/ tenured_contains_p(a))
       THEN [S |-> S, a |-> a]
     ELSE IF ObjAt(S, a).h = "bad" THEN [S |-> S, a |-> a]
     ELSE IF tenured_contains_p(a) THEN [S |-> mark_and_push(S, a), a |-> a]
     ELSE IF tenured_contains_p(obj) THEN [S |-> mark_and_push(S, obj), a |-> obj]
     ELSE IF r.a = 0 THEN [S |-> fatal_error(S, "Out of tenured space on wasm"), a |-> a]
     ELSE [S |-> mark_and_push(copy_and_forward(r.S, obj, r.a), r.a), a |-> r.a]

\* promotion of whatever a tenured object refers to (to_tenured collector)
from_tenured_refs_copier_fixup_data(S, a) ==
  LET obj == follow_forwarding(S, a)
      r == factor_vm("tenured_allot", << S >>)
  IN IF tenured_contains_p(a) THEN [S |-> S, a |-> a]
     ELSE IF tenured_contains_p(obj) THEN [S |-> S, a |-> obj]
     ELSE IF r.a = 0 \/ ObjAt(S, obj).h # "obj"
       THEN [S |-> fatal_error(S, "Out of tenured space on wasm"), a |-> a]
     ELSE [S |-> [copy_and_forward(r.S, obj, r.a) EXCEPT !.mark_stack = Append(@, r.a)],
           a |-> r.a]

fixup_data(S, a, pol) ==
  CASE pol = "nursery" -> nursery_copier_fixup_data(S, a)
    [] pol = "aging" -> to_aging_copier_fixup_data(S, a)
    [] pol = "full" -> full_collection_copier_fixup_data(S, a)
    [] pol = "to_tenured" -> from_tenured_refs_copier_fixup_data(S, a)

(* ---------------------------- slot visitor ----------------------------- *)
\* visit_handle that clears a handle found outside the heap during a collection
visit_handle_clearing(S, c, pol) ==
  LET r == factor_vm("fixup_data", << S, c.v, pol >>) IN
  IF S.status # "running" \/ immediate_p(c) THEN [S |-> S, c |-> c]
  ELSE IF ~nursery_contains_p(c.v) /\ ~aging_contains_p(S, c.v) /\ ~tenured_contains_p(c.v)
          /\ S.current_gc # "none"
    THEN [S |-> S, c |-> false_object]
  ELSE [S |-> r.S, c |-> Ptr(c.tag, r.a)]

\* result: the state and the (possibly rewritten) cell
visit_handle(S, c, pol) ==
  LET r == factor_vm("fixup_data", << S, c.v, pol >>) IN
  IF S.status # "running" \/ immediate_p(c) THEN [S |-> S, c |-> c]
  ELSE IF ~nursery_contains_p(c.v) /\ ~aging_contains_p(S, c.v) /\ ~tenured_contains_p(c.v)
          /\ S.current_gc # "none"
    THEN [S |-> S, c |-> c]
  ELSE [S |-> r.S, c |-> Ptr(c.tag, r.a)]

\* object::slot_count; a tuple's count comes from its layout
slot_count(S, a) ==
  LET o == S.mem[a]
      layout == IF o.slots = << >> THEN BadCell ELSE o.slots[1]
      lo == ObjAt(S, layout.v)
      cap == IF layout.tag = "array" /\ lo.h # "bad" /\ Len(lo.slots) >= 2
                /\ lo.slots[2].tag = "fixnum"
             THEN lo.slots[2].v ELSE 0
  IN IF o.h = "free" \/ o.h = "bad" THEN 0
     ELSE IF o.type = "tuple" THEN 1 + cap
     ELSE Len(o.slots)

RECURSIVE visit_object_array(_, _, _, _, _)
visit_object_array(S, a, i, n, pol) ==
  LET r == factor_vm("visit_handle", << S, S.mem[a].slots[i], pol >>) IN
  IF i > n \/ i > Len(S.mem[a].slots) THEN S
  ELSE visit_object_array([r.S EXCEPT !.mem[a].slots[i] = r.c], a, i + 1, n, pol)

visit_slots(S, a, pol) == visit_object_array(S, a, 1, slot_count(S, a), pol)

visit_object(S, a, pol) ==
  IF ~(nursery_contains_p(a) \/ aging_contains_p(S, a) \/ tenured_contains_p(a))
  THEN S ELSE factor_vm("visit_slots", << S, a, pol >>)

\* visit every cell of the sequence held in field f of the VM
RECURSIVE visit_root_cells(_, _, _, _)
visit_root_cells(S, f, i, pol) ==
  LET r == factor_vm("visit_handle", << S, S[f][i], pol >>) IN
  IF i > Len(S[f]) THEN S
  ELSE visit_root_cells([r.S EXCEPT ![f][i] = r.c], f, i + 1, pol)

visit_context(S, pol) ==
  factor_vm("visit_root_cells", << factor_vm("visit_root_cells", << S, "ds", 1, pol >>), "rs", 1, pol >>)

visit_all_roots(S, pol) ==
  visit_context(
    factor_vm("visit_root_cells", << factor_vm("visit_root_cells", << S, "data_roots", 1, pol >>),
                     "special_objects", 1, pol >>), pol)

\* one round of the loop of visit_mark_stack: pop an object and visit it
mark_stack_round(S, pol) ==
  LET a == Last(S.mark_stack)
      S1 == [S EXCEPT !.mark_stack = Front(@)]
  IN IF S.mem[a].h # "obj" THEN S1 ELSE factor_vm("visit_object", << S1, a, pol >>)

\* at most n rounds of the loop, split in halves
RECURSIVE mark_stack_rounds(_, _, _)
mark_stack_rounds(S, pol, n) ==
  IF S.mark_stack = << >> \/ S.status # "running" THEN S
  ELSE IF n = 1 THEN mark_stack_round(S, pol)
  ELSE mark_stack_rounds(mark_stack_rounds(S, pol, n \div 2), pol, n - n \div 2)

\* while (!mark_stack.empty()): every object is pushed once, so the rounds
\* of one pass are fewer than the units of the heap
RECURSIVE visit_mark_stack(_, _)
visit_mark_stack(S, pol) ==
  LET R == mark_stack_rounds(S, pol, data_end - data_start) IN
  IF R.mark_stack = << >> \/ R.status # "running" THEN R
  ELSE visit_mark_stack(R, pol)

\* visit_card for the card at address ci: a = 0 tells visit_cards to stop
visit_card(S, ci, pol) ==
  IF S.mem[ci].h = "bad" THEN [S |-> S, a |-> 0]
  ELSE [S |-> factor_vm("visit_slots", << S, ci, pol >>), a |-> ci]

\* the cards ci .. last - 1 of one deck
RECURSIVE visit_deck_cards(_, _, _, _, _, _)
visit_deck_cards(S, ci, last, mask, unmask, pol) ==
  LET S1 == [S EXCEPT !.cards[ci] = @ \ unmask]
      r == factor_vm("visit_card", << S1, ci, pol >>)
  IN IF ci >= last THEN [S |-> S, a |-> ci]
     ELSE IF S.cards[ci] \cap mask = {}
       THEN visit_deck_cards(S, ci + 1, last, mask, unmask, pol)
     ELSE IF r.a = 0 THEN r
     ELSE visit_deck_cards(r.S, ci + 1, last, mask, unmask, pol)

\* the loop over the decks di .. last_deck - 1; it passes over a deck none of
\* whose mask bits is set, so the next deck it works on is the first marked one
RECURSIVE visit_decks(_, _, _, _, _, _)
visit_decks(S, di, last_deck, mask, unmask, pol) ==
  LET todo == {d \in di .. (last_deck - 1) : S.decks[d] \cap mask # {}}
      deck == Min(todo)
      S1 == [S EXCEPT !.decks[deck] = @ \ unmask]
      first_card == data_start + cards_per_deck * deck
      r == factor_vm("visit_deck_cards",
                     << S1, first_card, first_card + cards_per_deck, mask, unmask, pol >>)
  IN IF todo = {} THEN S
     ELSE IF r.a = 0 THEN r.S
     ELSE visit_decks(r.S, deck + 1, last_deck, mask, unmask, pol)

visit_cards(S, gen_start, gen_end, mask, unmask, pol) ==
  visit_decks(S, DeckOf(gen_start), DeckOf(gen_end), mask, unmask, pol)

\* scans is history: the objects the loop has visited in this gc()
note_scan(S, scan) == [S EXCEPT !.scans = Append(@, scan)]

\* a loop that stops once it has visited one object
cheneys_algorithm_one(S, scan, pol) ==
  IF scan >= S.aging_here \/ S.status # "running" \/ S.mem[scan].h = "bad" THEN S
  ELSE factor_vm("visit_object", << note_scan(S, scan), scan, pol >>)

RECURSIVE cheneys_algorithm(_, _, _)
cheneys_algorithm(S, scan, pol) ==
  IF scan >= S.aging_here \/ S.status # "running" \/ S.mem[scan].h = "bad" THEN S
  ELSE cheneys_algorithm(factor_vm("visit_object", << note_scan(S, scan), scan, pol >>),
                         scan + 1, pol)

(* ------------------------------ data heap ------------------------------ *)
high_water_mark == nursery_size + aging_size
high_fragmentation_p(S) == largest_free_block(S) <= high_water_mark
low_memory_p(S) == S.free_space <= high_water_mark

clear_cards_and_decks(S, lo, hi) ==
  [S EXCEPT !.cards = [a \in Addr |-> IF a >= lo /\ a < hi THEN {} ELSE @[a]],
            !.decks = [d \in DOMAIN @ |->
                         IF d >= DeckOf(lo) /\ d < DeckOf(hi) THEN {} ELSE @[d]]]

reset_nursery(S) ==
  [FlushRange(S, nursery_start, nursery_end) EXCEPT !.nursery_here = nursery_start]

reset_aging(S) ==
  clear_cards_and_decks(
    [FlushRange(S, S.aging_start, aging_end(S)) EXCEPT !.aging_here = S.aging_start],
    S.aging_start, aging_end(S))

reset_tenured(S) == clear_cards_and_decks(S, tenured_start, tenured_end)

\* cards[] and decks[] of the slot's address, as the write barrier sets them
write_barrier(S, a) ==
  [S EXCEPT !.cards[a] = card_mark_mask, !.decks[DeckOf(a)] = card_mark_mask]

(* ------------------------------ collectors ----------------------------- *)
\* code_heap::write_barrier: the block enters both remembered sets
code_write_barrier(S, compiled) ==
  [S EXCEPT !.points_to_nursery = @ \cup {compiled},
            !.points_to_aging = @ \cup {compiled}]

clear_remembered_set(S) == [S EXCEPT !.points_to_nursery = {}, !.points_to_aging = {}]

\* collect_nursery that leaves the nursery and the remembered set as they are
collect_nursery_keep(S) ==
  LET scan == S.aging_here
      S1 == factor_vm("visit_all_roots", << S, "nursery" >>)
  IN factor_vm("cheneys_algorithm", << S1, scan, "nursery" >>)

collect_nursery(S) ==
  LET scan == S.aging_here
      S1 == factor_vm("visit_all_roots", << S, "nursery" >>)
      S2 == factor_vm("visit_cards", << S1, tenured_start, tenured_end,
                        card_points_to_nursery, card_points_to_nursery, "nursery" >>)
      S3 == factor_vm("visit_cards", << S2, S2.aging_start, aging_end(S2),
                        card_points_to_nursery, card_mark_mask, "nursery" >>)
  IN [reset_nursery(factor_vm("cheneys_algorithm", << S3, scan, "nursery" >>))
        EXCEPT !.points_to_nursery = {}]

set_op(S, op) == [S EXCEPT !.current_gc = op, !.gc_ops = Append(@, op)]

collect_aging(S) ==
  LET P1 == set_op(S, "COLLECT_TO_TENURED_OP")
      P2 == factor_vm("visit_cards", << P1, tenured_start, tenured_end,
                        card_points_to_aging, card_mark_mask, "to_tenured" >>)
      P3 == factor_vm("visit_mark_stack", << P2, "to_tenured" >>)
      P4 == set_op(P3, "COLLECT_AGING_OP")
      P5 == reset_aging([P4 EXCEPT !.aging_start = semispace_start(P4),
                                   !.aging_here = P4.semi_here,
                                   !.semi_here = P4.aging_here])
      scan == P5.aging_here
      P6 == factor_vm("visit_all_roots", << P5, "aging" >>)
  IN clear_remembered_set(reset_nursery(factor_vm("cheneys_algorithm", << P6, scan, "aging" >>)))

collect_to_tenured(S) ==
  LET S1 == factor_vm("visit_all_roots", << S, "to_tenured" >>)
      S2 == factor_vm("visit_cards", << S1, tenured_start, tenured_end,
                        card_points_to_aging, card_mark_mask, "to_tenured" >>)
  IN clear_remembered_set(
       reset_nursery(reset_aging(factor_vm("visit_mark_stack", << S2, "to_tenured" >>))))

collect_mark_impl(S) ==
  LET S1 == [S EXCEPT !.mark_stack = << >>, !.marked = {}]
      S2 == factor_vm("visit_mark_stack", << factor_vm("visit_all_roots", << S1, "full" >>), "full" >>)
  IN clear_remembered_set(reset_nursery(reset_aging(reset_tenured(S2))))

\* length of the run of unmarked units that starts at a
unmarked_block_size(S, a) ==
  Min({b \in a .. tenured_end : b = tenured_end \/ b \in S.marked}) - a

\* free_list_allocator::sweep from address a on: marked objects are passed
\* over, every run of unmarked units becomes one free block
RECURSIVE sweep_from(_, _)
sweep_from(S, a) ==
  LET unmarked == {b \in a .. (tenured_end - 1) : b \notin S.marked}
      start == Min(unmarked)
      n == unmarked_block_size(S, start)
  IN IF unmarked = {} THEN S
     ELSE sweep_from(add_to_free_list(make_free(S, start, n), start), start + n)

collect_sweep_impl(S) == sweep_from(clear_free_list(S), tenured_start)

\* the segment allocator has no second data segment to hand out
collect_growing_data_heap(S) == fatal_error(S, "Out of memory allocating segment")

\* new address of a marked tenured object: marked objects slide to the low end
compact_forward(S, a) == tenured_start + Cardinality({b \in S.marked : b < a})
relocate_cell(S, c) ==
  IF ~immediate_p(c) /\ c.v \in S.marked THEN Ptr(c.tag, compact_forward(S, c.v)) ELSE c
relocate_cells(S, cs) == [i \in DOMAIN cs |-> relocate_cell(S, cs[i])]

\* the sizes of the blocks at the addresses bs, added up
RECURSIVE SumSizesIn(_, _, _, _)
SumSizesIn(S, bs, lo, hi) ==
  IF lo > hi THEN 0
  ELSE IF lo = hi THEN (IF lo \in bs THEN S.mem[lo].size ELSE 0)
  ELSE SumSizesIn(S, bs, lo, (lo + hi) \div 2) + SumSizesIn(S, bs, (lo + hi) \div 2 + 1, hi)
SumSizes(S, bs) == SumSizesIn(S, bs, data_start, data_end - 1)

NotCompacted == [at |-> FALSE, marked_size |-> 0]

\* the blocks slide down but the free list is left as the sweep built it
compact_keeping_free_list(S) ==
  LET dest_addr == tenured_start + SumSizes(S, S.marked) IN
  [S EXCEPT !.mem = [a \in Addr |->
                       IF a >= tenured_start /\ a < dest_addr
                       THEN LET src == CHOOSE b \in S.marked : compact_forward(S, b) = a
                            IN [S.mem[src] EXCEPT !.slots = relocate_cells(S, @)]
                       ELSE S.mem[a]],
            !.marked = tenured_start .. (dest_addr - 1),
            !.compacted = [at |-> TRUE, marked_size |-> SumSizes(S, S.marked)]]

\* free_list_allocator::compact: every marked block moves to dest_addr, its
\* slots are fixed up by iter, and the free list is rebuilt behind the last
\* of them.  compacted is history: the marked sizes the compaction found.
compact(S) ==
  LET dest_addr == tenured_start + SumSizes(S, S.marked)
      moved == [a \in Addr |->
                 IF a >= tenured_start /\ a < dest_addr
                 THEN LET src == CHOOSE b \in S.marked : compact_forward(S, b) = a
                      IN [S.mem[src] EXCEPT !.slots = relocate_cells(S, @)]
                 ELSE S.mem[a]]
      S1 == [S EXCEPT !.mem = moved,
                      !.marked = tenured_start .. (dest_addr - 1),
                      !.compacted = [at |-> TRUE, marked_size |-> SumSizes(S, S.marked)]]
  IN initial_free_list(S1, dest_addr - tenured_start)

collect_compact_impl(S) ==
  [compact(S) EXCEPT !.data_roots = relocate_cells(S, @),
                     !.special_objects = relocate_cells(S, @),
                     !.ds = relocate_cells(S, @),
                     !.rs = relocate_cells(S, @)]

collect_full(S) ==
  LET S1 == collect_sweep_impl(factor_vm("collect_mark_impl", << S >>)) IN
  IF S1.status # "running" THEN S1
  ELSE IF low_memory_p(S1)
    THEN collect_growing_data_heap(set_op(S1, "COLLECT_GROWING_DATA_HEAP_OP"))
  ELSE IF high_fragmentation_p(S1)
    THEN factor_vm("collect_compact_impl", << set_op(S1, "COLLECT_COMPACT_OP") >>)
  ELSE S1

collect_compact(S) ==
  LET S1 == factor_vm("collect_compact_impl", << factor_vm("collect_mark_impl", << S >>) >>) IN
  IF S1.status = "running" /\ high_fragmentation_p(S1)
  THEN collect_growing_data_heap(set_op(S1, "COLLECT_GROWING_DATA_HEAP_OP"))
  ELSE S1

(* ------------------------------ gc driver ------------------------------ *)
GcOpOrder ==
  << "COLLECT_NURSERY_OP", "COLLECT_AGING_OP", "COLLECT_TO_TENURED_OP",
     "COLLECT_FULL_OP", "COLLECT_COMPACT_OP", "COLLECT_GROWING_DATA_HEAP_OP" >>
GcRank(op) == IndexOf(GcOpOrder, op)

LayoutCaches ==
  {"curried", "composed", "box", "global_box", "hashtable", "tombstone", "slice",
   "vector", "reversed", "wrapped_sequence"}
\* an epilogue of gc() that leaves the cached layouts as they are
keep_wasm_layout_caches(S) == S
clear_wasm_layout_caches(S) == [S EXCEPT !.g_layout = [n \in LayoutCaches |-> Fix(0)]]

\* gc(): entry up to the creation of the gc_state
\* the slots of tenured objects that name objects of the nursery
TenuredYoungRefs(S) ==
  {<< a, i, S.mem[a].slots[i].v >> :
     << a, i >> \in {<< b, k >> \in (tenured_start .. (tenured_end - 1)) \X (1 .. 5) :
                      /\ S.mem[b].h = "obj"
                      /\ k \in DOMAIN S.mem[b].slots
                      /\ ~immediate_p(S.mem[b].slots[k])
                      /\ S.mem[b].slots[k].tag # "handler"
                      /\ nursery_contains_p(S.mem[b].slots[k].v)}}

\* young_refs is history: those slots as this gc() found them
gc_begin(S, op) ==
  [S EXCEPT !.current_gc = op, !.gc_ops = <<op>>, !.gc_runs = << >>, !.gc_starts = << >>,
            !.gc_stage = "begun", !.compacted = NotCompacted,
            !.copies = << >>, !.scans = << >>, !.fixups = << >>,
            !.young_refs = TenuredYoungRefs(S)]

\* a driver without the pre-checks
gc_start_as_asked(S) == [S EXCEPT !.gc_stage = "escalated"]

\* gc(): the two pre-checks at the head of the loop body
gc_escalate(S) ==
  LET aging_free == aging_size - (S.aging_here - S.aging_start)
      S1 == IF S.current_gc = "COLLECT_NURSERY_OP"
               /\ aging_free < S.nursery_here - nursery_start
            THEN set_op(S, "COLLECT_AGING_OP") ELSE S
      S2 == IF S1.current_gc = "COLLECT_AGING_OP" /\ high_fragmentation_p(S1)
            THEN set_op(S1, "COLLECT_FULL_OP") ELSE S1
  IN [S2 EXCEPT !.gc_stage = "escalated"]

\* gc_starts is history: the heap as each collection routine found it
ran(S, what) ==
  [S EXCEPT !.gc_runs = Append(@, what),
            !.gc_starts = Append(@, [op |-> what,
                                     nursery_occupied |-> S.nursery_here - nursery_start,
                                     code_blocks |-> S.points_to_nursery,
                                     aging_free |-> aging_size - (S.aging_here - S.aging_start),
                                     fragmented |-> high_fragmentation_p(S)])]

\* a driver that returns after the collection of the switch, whatever the
\* state of tenured space
then_return(S) == S

\* a driver that runs a nursery collection after the collection of the switch
then_nursery_again(S) ==
  IF S.status = "running"
  THEN factor_vm("collect_nursery", << ran(set_op(S, "COLLECT_NURSERY_OP"), "COLLECT_NURSERY_OP") >>)
  ELSE S

then_full_if_fragmented(S) ==
  IF S.status = "running" /\ high_fragmentation_p(S)
  THEN factor_vm("collect_full", << ran(set_op(S, "COLLECT_FULL_OP"), "COLLECT_FULL_OP") >>)
  ELSE S

\* gc(): the switch of the loop body, the single iteration's break, and the
\* epilogue that drops the gc_state and clears the layout caches
gc_collect(S) ==
  LET op == S.current_gc
      S0 == ran(S, op)
      S1 == CASE op = "COLLECT_NURSERY_OP" -> factor_vm("collect_nursery", << S0 >>)
              [] op = "COLLECT_AGING_OP" -> factor_vm("then_full_if_fragmented", << factor_vm("collect_aging", << S0 >>) >>)
              [] op = "COLLECT_TO_TENURED_OP" -> factor_vm("then_full_if_fragmented", << factor_vm("collect_to_tenured", << S0 >>) >>)
              [] op = "COLLECT_FULL_OP" -> factor_vm("collect_full", << S0 >>)
              [] op = "COLLECT_COMPACT_OP" -> factor_vm("collect_compact", << S0 >>)
              [] op = "COLLECT_GROWING_DATA_HEAP_OP" -> collect_growing_data_heap(S0)
  IN IF S1.status # "running" THEN S1
     ELSE clear_wasm_layout_caches(
            [S1 EXCEPT !.current_gc = "none", !.gc_stage = "idle", !.mark_stack = << >>])

gc(S, op) ==
  IF S.gc_off \/ S.status # "running" THEN S
  ELSE factor_vm("gc_collect", << factor_vm("gc_escalate", << factor_vm("gc_begin", << S, op >>) >>) >>)

primitive_minor_gc(S) == IF ~S.gc_off THEN factor_vm("gc", << S, "COLLECT_NURSERY_OP" >>) ELSE S
primitive_full_gc(S) == IF ~S.gc_off THEN factor_vm("gc", << S, "COLLECT_FULL_OP" >>) ELSE S

\* history: the last call of an allocator's allot and what it returned
NoAllot == [at |-> FALSE, gen |-> "none", n |-> 0, a |-> 0, fits |-> TRUE, same |-> TRUE]

(* --------------------- mutator: stacks and allocation ------------------ *)
Alive(S) == S.status = "running"
peek(S) == IF S.ds = << >> THEN BadCell ELSE Last(S.ds)
pop(S) == IF S.ds = << >> THEN S ELSE [S EXCEPT !.ds = Front(@)]
push(S, c) == [S EXCEPT !.ds = Append(@, c)]

\* allot_object for a one-unit object: collect the nursery when it is full,
\* then bump.  The new object's cells are whatever the memory held.
allot_object(S, type) ==
  LET S1 == IF S.nursery_here + 1 > nursery_end THEN factor_vm("primitive_minor_gc", << S >>) ELSE S
      a == S1.nursery_here
  IN IF ~Alive(S1) THEN [S |-> S1, a |-> 0]
     ELSE [S |-> [S1 EXCEPT !.nursery_here = a + 1,
                            !.mem[a] = MkObj(type, << >>, "")],
           a |-> a]

\* data_root constructor and destructor
\* root_handles names, entry by entry, the local variable that registered it
root_push(S, c) == [S EXCEPT !.data_roots = Append(@, c)]
root_pop(S) ==
  IF S.data_roots = << >> THEN S
  ELSE [S EXCEPT !.data_roots = Front(@), !.root_handles = Front(@)]
data_root(S, c, handle) == [root_push(S, c) EXCEPT !.root_handles = Append(@, handle)]
\* ~data_root: nothing is popped from an empty vector, else the last entry
\* is popped whoever registered it.  root_misrelease is history: an anchor
\* was released while it was not the last entry.
release(S, handle) ==
  IF S.data_roots = << >> THEN [S EXCEPT !.root_misrelease = TRUE]
  ELSE [root_pop(S) EXCEPT !.root_misrelease = @ \/ Last(S.root_handles) # handle]
\* data_roots.clear()
clear_data_roots(S) == [S EXCEPT !.data_roots = << >>, !.root_handles = << >>]
root_top(S) == IF S.data_roots = << >> THEN BadCell ELSE Last(S.data_roots)
root_at(S, k) == IF k \in DOMAIN S.data_roots THEN S.data_roots[k] ELSE BadCell

\* a store by plain assignment, and a store through the write barrier
\* (slot index i counts the model's slots of the object at a)
store_slot(S, a, i, c) ==
  IF a \in Addr /\ S.mem[a].h = "obj" /\ i \in DOMAIN S.mem[a].slots
  THEN [S EXCEPT !.mem[a].slots[i] = c] ELSE S
set_slot(S, a, i, c) ==
  IF a \in Addr THEN write_barrier(store_slot(S, a, i, c), a) ELSE S
set_slots(S, a, cs) == IF a \in Addr THEN [S EXCEPT !.mem[a].slots = cs] ELSE S
\* set_array_nth for each element of a fresh array
set_array(S, a, cs) == IF a \in Addr THEN write_barrier(set_slots(S, a, cs), a) ELSE S

(* ----------------------------- work items ------------------------------ *)
WorkItem(t, cs, len, idx) == [type |-> t, cells |-> cs, length |-> len, index |-> idx]
trampoline_push(S, item) == [S EXCEPT !.tramp = Append(@, item)]
push_quotation_work(S, array_tagged, len, start) ==
  IF start >= len THEN S
  ELSE trampoline_push(S, WorkItem("QUOTATION_CONTINUE", <<array_tagged>>, len, start))
push_word_work(S, w) == trampoline_push(S, WorkItem("EXECUTE_WORD", <<w>>, 0, 0))
push_callable_work(S, c) == trampoline_push(S, WorkItem("CALL_CALLABLE", <<c>>, 0, 0))
push_restore_1(S, v0) == trampoline_push(S, WorkItem("RESTORE_VALUES", <<v0>>, 0, 0))
push_restore_2(S, v0, v1) == trampoline_push(S, WorkItem("RESTORE_VALUES", <<v0, v1>>, 0, 0))
push_restore_3(S, v0, v1, v2) ==
  trampoline_push(S, WorkItem("RESTORE_VALUES", <<v0, v1, v2>>, 0, 0))
push_loop_work(S, quotation) == trampoline_push(S, WorkItem("LOOP_CONTINUE", <<quotation>>, 0, 0))
push_value_work(S, x) == trampoline_push(S, WorkItem("PUSH_VALUE", <<x>>, 0, 0))

array_capacity(S, c) == Len(ObjAt(S, c.v).slots)
\* q->array of a quotation cell
quot_array(S, q) == LET o == ObjAt(S, q.v) IN IF o.slots = << >> THEN BadCell ELSE o.slots[1]
slot_of(S, a, i) == LET o == ObjAt(S, a) IN IF i \in DOMAIN o.slots THEN o.slots[i] ELSE BadCell

(* --------------------------- error handling ---------------------------- *)
KERNEL_ERROR == Fix(0 - 2)
ErrorKinds == << "ERROR_DIVIDE_BY_ZERO", "ERROR_ARRAY_SIZE", "ERROR_SIGNAL" >>
ErrorCell(kind) == Fix(IndexOf(ErrorKinds, kind))

\* allot_array_4: the four cells are rooted across the allocation
allot_array_4(S, v1, v2, v3, v4) ==
  LET n == Len(S.data_roots)
      S1 == data_root(data_root(data_root(data_root(S, v1, "v1"), v2, "v2"), v3, "v3"), v4, "v4")
      r == factor_vm("allot_object", << S1, "array" >>)
      S2 == set_array(r.S, r.a, << root_at(r.S, n + 1), root_at(r.S, n + 2),
                                   root_at(r.S, n + 3), root_at(r.S, n + 4) >>)
  IN [S |-> release(release(release(release(S2, "v4"), "v3"), "v2"), "v1"),
      c |-> Ptr("array", r.a)]

\* interpret_quotation called while the trampoline is running
interpret_quotation_nested(S, quot) ==
  LET arr == quot_array(S, quot) IN
  push_quotation_work(S, arr, array_capacity(S, arr), 0)

\* TrampolineGuard(): the flag is saved and set; run_trampoline is entered
TrampolineGuard(S) ==
  [S EXCEPT !.guards = Append(@, S.in_trampoline), !.in_trampoline = TRUE,
            !.loops = @ + 1]

\* the loop of run_trampoline finds the work stack empty and returns, and
\* ~TrampolineGuard() restores the flag; a loop entered inside another one
\* returns into it, which finds the work stack empty in its turn
trampoline_return(S) ==
  IF S.tramp = << >> /\ S.status = "running" /\ S.guards # << >>
  THEN [S EXCEPT !.in_trampoline = S.guards[1], !.guards = << >>, !.loops = 0]
  ELSE S

\* interpret_quotation that enters the loop whatever the flag says
interpret_quotation_reentering(S, quot) ==
  trampoline_return(interpret_quotation_nested(TrampolineGuard(S), quot))

unwind_native_frames(S, quot) ==
  factor_vm("interpret_quotation", << [S EXCEPT !.faulting_p = FALSE], quot >>)

\* history: no error has been raised yet
NoRaise == [at |-> FALSE, gc |-> "none", handler |-> false_object,
            ds |-> << >>, tramp |-> << >>, active |-> FALSE]
\* history: the collection, handler, data stack and work stack at a raise
raise_context(S) ==
  [at |-> TRUE, gc |-> S.current_gc, handler |-> SO(S, "ERROR_HANDLER_QUOT"),
   ds |-> S.ds, tramp |-> S.tramp, active |-> S.in_trampoline]

\* general_error that transfers to the handler whatever the collector does
general_error_ignoring_gc(S, kind, arg1_, arg2_) ==
  LET n == Len(S.data_roots)
      S1 == [data_root(data_root(S, arg1_, "arg1"), arg2_, "arg2") EXCEPT !.faulting_p = TRUE,
                                                          !.gc_off = FALSE,
                                                          !.raised = raise_context(S)]
      r == factor_vm("allot_array_4", << S1, KERNEL_ERROR, ErrorCell(kind), root_at(S1, n + 1), root_at(S1, n + 2) >>)
      S2 == [clear_data_roots(push(r.S, r.c)) EXCEPT !.err_pending = TRUE,
                                                     !.err_overrun = FALSE]
  IN IF ~Alive(S) THEN S
     ELSE IF Alive(r.S)
       THEN release(release(unwind_native_frames(S2, SO(S2, "ERROR_HANDLER_QUOT")), "arg2"), "arg1")
     ELSE r.S

general_error(S, kind, arg1_, arg2_) ==
  LET n == Len(S.data_roots)
      S1 == [data_root(data_root(S, arg1_, "arg1"), arg2_, "arg2") EXCEPT !.faulting_p = TRUE,
                                                          !.gc_off = FALSE,
                                                          !.raised = raise_context(S)]
      r == factor_vm("allot_array_4", << S1, KERNEL_ERROR, ErrorCell(kind), root_at(S1, n + 1), root_at(S1, n + 2) >>)
      S2 == [clear_data_roots(push(r.S, r.c)) EXCEPT !.err_pending = TRUE,
                                                     !.err_overrun = FALSE]
      S3 == release(release(unwind_native_frames(S2, SO(S2, "ERROR_HANDLER_QUOT")),
                            "arg2"), "arg1")
  IN IF ~Alive(S) THEN S
     ELSE IF S.current_gc = "none" /\ to_boolean(SO(S, "ERROR_HANDLER_QUOT"))
       THEN (IF Alive(r.S) THEN S3 ELSE r.S)
     ELSE [S1 EXCEPT !.status = "aborted"]

(* --------------------------- built-in handlers ------------------------- *)
HandlerIds ==
  << "HANDLER_NONE", "HANDLER_CALL", "HANDLER_DIP", "HANDLER_DROP",
     "HANDLER_FIXNUM_MOD", "HANDLER_SET_NTH", "HANDLER_VALUE_WRITE",
     "HANDLER_PROPS_WRITE", "HANDLER_TUPLE_BOA", "HANDLER_CURRY_WORD",
     "HANDLER_2CURRY", "HANDLER_PROBE", "HANDLER_WRAP", "HANDLER_STRING_HASHCODE",
     "HANDLER_SET_STRING_HASHCODE", "HANDLER_BI", "HANDLER_FIXNUM_PLUS",
     "HANDLER_FIXNUM_TIMES", "HANDLER_FIXNUM_MINUS", "HANDLER_FIXNUM_DIVI",
     "HANDLER_FIXNUM_DIVMOD", "HANDLER_FIXNUM_SHIFT", "HANDLER_MEGA_CACHE_LOOKUP",
     "HANDLER_NO_METHOD", "HANDLER_EQUAL", "HANDLER_DUP", "HANDLER_2DIP", "HANDLER_3DIP",
     "HANDLER_LOOP", "HANDLER_RECOVER", "HANDLER_OVER", "HANDLER_2OVER" >>

\* get_handler_id_table: word name -> handler id
HandlerTable ==
  [ n \in {"call", "dip", "drop", "fixnum-mod", "set-nth", "value<<", "props<<",
           "<tuple-boa>", "curry", "2curry", "probe", "wrap", "string-hashcode",
           "set-string-hashcode", "bi", "fixnum+", "fixnum*",
           "fixnum-", "fixnum/i-fast", "fixnum/mod-fast", "fixnum-shift-fast",
           "mega-cache-lookup", "no-method", "equal?", "dup", "2dip", "3dip", "loop", "recover", "over", "2over"} |->
      CASE n = "call" -> "HANDLER_CALL"
        [] n = "dip" -> "HANDLER_DIP"
        [] n = "drop" -> "HANDLER_DROP"
        [] n = "fixnum-mod" -> "HANDLER_FIXNUM_MOD"
        [] n = "set-nth" -> "HANDLER_SET_NTH"
        [] n = "value<<" -> "HANDLER_VALUE_WRITE"
        [] n = "props<<" -> "HANDLER_PROPS_WRITE"
        [] n = "<tuple-boa>" -> "HANDLER_TUPLE_BOA"
        [] n = "curry" -> "HANDLER_CURRY_WORD"
        [] n = "2curry" -> "HANDLER_2CURRY"
        [] n = "probe" -> "HANDLER_PROBE"
        [] n = "wrap" -> "HANDLER_WRAP"
        [] n = "string-hashcode" -> "HANDLER_STRING_HASHCODE"
        [] n = "set-string-hashcode" -> "HANDLER_SET_STRING_HASHCODE"
        [] n = "bi" -> "HANDLER_BI"
        [] n = "fixnum+" -> "HANDLER_FIXNUM_PLUS"
        [] n = "fixnum*" -> "HANDLER_FIXNUM_TIMES"
        [] n = "fixnum-" -> "HANDLER_FIXNUM_MINUS"
        [] n = "fixnum/i-fast" -> "HANDLER_FIXNUM_DIVI"
        [] n = "fixnum/mod-fast" -> "HANDLER_FIXNUM_DIVMOD"
        [] n = "fixnum-shift-fast" -> "HANDLER_FIXNUM_SHIFT"
        [] n = "mega-cache-lookup" -> "HANDLER_MEGA_CACHE_LOOKUP"
        [] n = "no-method" -> "HANDLER_NO_METHOD"
        [] n = "equal?" -> "HANDLER_EQUAL"
        [] n = "dup" -> "HANDLER_DUP"
        [] n = "2dip" -> "HANDLER_2DIP"
        [] n = "3dip" -> "HANDLER_3DIP"
        [] n = "loop" -> "HANDLER_LOOP"
        [] n = "recover" -> "HANDLER_RECOVER"
        [] n = "over" -> "HANDLER_OVER"
        [] n = "2over" -> "HANDLER_2OVER" ]

\* WASM_HANDLER_MAGIC | id, a cell that is neither immediate nor in the heap
HandlerCell(id) == [tag |-> "handler", v |-> 0 - IndexOf(HandlerIds, id)]

get_cached_handler_id(S, w) ==
  LET cached == slot_of(S, w.v, 4) IN
  IF cached.tag # "handler" THEN "HANDLER_UNCACHED" ELSE HandlerIds[0 - cached.v]

set_cached_handler_id(S, w, id) == store_slot(S, w.v, 4, HandlerCell(id))

lookup_handler_id(S, w) ==
  LET name == ObjAt(S, slot_of(S, w.v, 1).v).data IN
  IF name \in DOMAIN HandlerTable THEN HandlerTable[name] ELSE "HANDLER_NONE"

\* a lookup that caches "no handler" without consulting the table
cache_handler_none(S, w) == set_cached_handler_id(S, w, "HANDLER_NONE")

lookup_and_cache_handler_id(S, w) == set_cached_handler_id(S, w, lookup_handler_id(S, w))

is_tuple_class(S, ta, cache, class_name) ==
  LET t_layout == slot_of(S, ta, 1)
      klass == slot_of(S, t_layout.v, 1)
      name == ObjAt(S, slot_of(S, klass.v, 1).v).data
  IN IF S.g_layout[cache] # Fix(0)
     THEN [S |-> S, ret |-> t_layout = S.g_layout[cache]]
     ELSE IF name = class_name
       THEN [S |-> [S EXCEPT !.g_layout[cache] = t_layout], ret |-> TRUE]
     ELSE [S |-> S, ret |-> FALSE]

\* a cell refers to an object that is where the cell says it is
valid_pointer(S, c) ==
  /\ c.v \in Addr
  /\ S.mem[c.v].h = "obj"
  /\ \/ tenured_contains_p(c.v)
     \/ aging_contains_allocated_p(S, c.v)
     \/ nursery_contains_allocated_p(S, c.v)

\* history: a host local loaded before an allocation is stored after it
\* although the object it named is gone from that address
note_store(S, before, fresh, c) ==
  IF ~immediate_p(c) /\ valid_pointer(before, c)
     /\ (c.v = fresh \/ ~valid_pointer(S, c))
  THEN [S EXCEPT !.stale_store = TRUE] ELSE S

\* t = allot<tuple>; t->layout = layout; t->data()[0] = d0; t->data()[1] = d1,
\* with t held in a data_root from the allocation to the end of the handler
\* (before: the state in which the locals d0, d1 were loaded)
curried_tuple(S, before, d0, d1) ==
  LET r == factor_vm("allot_object", << S, "tuple" >>)
      S1 == set_slots(r.S, r.a, << r.S.g_layout["curried"], d0, d1 >>)
  IN [S |-> note_store(note_store(S1, before, r.a, d0), before, r.a, d1),
      c |-> Ptr("tuple", r.a)]

HANDLER_CURRY_WORD(S) ==
  LET quot == peek(S)
      obj == peek(pop(S))
      r == factor_vm("curried_tuple", << pop(pop(S)), S, obj, quot >>)
  IN IF S.g_layout["curried"] = Fix(0) THEN [S |-> S, ret |-> FALSE]
     ELSE [S |-> push(r.S, r.c), ret |-> TRUE]

HANDLER_2CURRY(S) ==
  LET quot == peek(S)
      obj2 == peek(pop(S))
      obj1 == peek(pop(pop(S)))
      n == Len(S.data_roots)
      r1 == factor_vm("curried_tuple", << pop(pop(pop(S))), S, obj2, quot >>)
      R1 == data_root(r1.S, r1.c, "t1")
      r2 == factor_vm("curried_tuple", << R1, S, obj1, false_object >>)
      t1 == root_at(r2.S, n + 1)
      S2 == store_slot(r2.S, r2.c.v, 3, t1)
  IN IF S.g_layout["curried"] = Fix(0) THEN [S |-> S, ret |-> FALSE]
     ELSE [S |-> release(push(S2, r2.c), "t1"), ret |-> TRUE]

HANDLER_FIXNUM_MOD(S) ==
  LET y == peek(S)
      x == peek(pop(S))
      S1 == pop(pop(S))
  IN IF y.v = 0 THEN [S |-> factor_vm("general_error", << S1, "ERROR_DIVIDE_BY_ZERO", Fix(x.v), Fix(y.v) >>),
                      ret |-> TRUE]
     ELSE [S |-> push(S1, tag_fixnum(c_rem(x.v, y.v))), ret |-> TRUE]

\* bignums: objects without slots whose data is the number
bignum_value(S, c) ==
  IF ObjAt(S, c.v).h = "obj" /\ ObjAt(S, c.v).type = "bignum" THEN ObjAt(S, c.v).data ELSE 0
allot_bignum(S, n) ==
  LET r == factor_vm("allot_object", << S, "bignum" >>) IN
  IF ~Alive(r.S) THEN [S |-> r.S, c |-> BadCell]
  ELSE [S |-> [r.S EXCEPT !.mem[r.a].data = n], c |-> Ptr("bignum", r.a)]
fixnum_to_bignum(S, n) == allot_bignum(S, n)
bignum_add(S, x, y) == allot_bignum(S, bignum_value(S, x) + bignum_value(S, y))
bignum_subtract(S, x, y) == allot_bignum(S, bignum_value(S, x) - bignum_value(S, y))
bignum_multiply(S, x, y) == allot_bignum(S, bignum_value(S, x) * bignum_value(S, y))
bignum_maybe_to_fixnum(S, c) ==
  LET n == bignum_value(S, c) IN
  IF n >= fixnum_min /\ n <= fixnum_max THEN tag_fixnum(n) ELSE c

\* the overflow branch of fixnum+, fixnum- and fixnum*: bx, by and res are
\* anchored while the next bignum is allotted
fixnum_overflow(S, x, y, op) ==
  LET b1 == fixnum_to_bignum(S, x)
      S1 == data_root(b1.S, b1.c, "bx")
      b2 == fixnum_to_bignum(S1, y)
      S2 == data_root(b2.S, b2.c, "by")
      bx == root_at(S2, Len(S2.data_roots) - 1)
      by == root_top(S2)
      b3 == CASE op = "add" -> bignum_add(S2, bx, by)
              [] op = "subtract" -> bignum_subtract(S2, bx, by)
              [] op = "multiply" -> bignum_multiply(S2, bx, by)
      S3 == data_root(b3.S, b3.c, "res")
      S4 == push(S3, bignum_maybe_to_fixnum(S3, root_top(S3)))
  IN IF ~Alive(b1.S) THEN b1.S
     ELSE IF ~Alive(b2.S) THEN b2.S
     ELSE IF ~Alive(b3.S) THEN b3.S
     ELSE release(release(release(S4, "res"), "by"), "bx")

\* fixnum+ that keeps the low bits of the sum
HANDLER_FIXNUM_PLUS_wrapping(S) ==
  [S |-> push(pop(pop(S)), tag_fixnum(untag_fixnum(peek(pop(S))) + untag_fixnum(peek(S)))),
   ret |-> TRUE]

HANDLER_FIXNUM_PLUS(S) ==
  LET y == untag_fixnum(peek(S))
      x == untag_fixnum(peek(pop(S)))
      S1 == pop(pop(S))
      r == Wrap(x + y, WideBits)
  IN IF r > fixnum_max \/ r < fixnum_min
     THEN [S |-> factor_vm("fixnum_overflow", << S1, x, y, "add" >>), ret |-> TRUE]
     ELSE [S |-> push(S1, tag_fixnum(r)), ret |-> TRUE]

HANDLER_FIXNUM_MINUS(S) ==
  LET y == untag_fixnum(peek(S))
      x == untag_fixnum(peek(pop(S)))
      S1 == pop(pop(S))
      r == Wrap(x - y, WideBits)
  IN IF r > fixnum_max \/ r < fixnum_min
     THEN [S |-> factor_vm("fixnum_overflow", << S1, x, y, "subtract" >>), ret |-> TRUE]
     ELSE [S |-> push(S1, tag_fixnum(r)), ret |-> TRUE]

HANDLER_FIXNUM_TIMES(S) ==
  LET y == untag_fixnum(peek(S))
      x == untag_fixnum(peek(pop(S)))
      S1 == pop(pop(S))
      r == Wrap(x * y, WideBits)
  IN IF r > fixnum_max \/ r < fixnum_min
     THEN [S |-> factor_vm("fixnum_overflow", << S1, x, y, "multiply" >>), ret |-> TRUE]
     ELSE [S |-> push(S1, tag_fixnum(r)), ret |-> TRUE]

HANDLER_FIXNUM_DIVI(S) ==
  LET y == untag_fixnum(peek(S))
      x == untag_fixnum(peek(pop(S)))
      S1 == pop(pop(S))
  IN IF y = 0 THEN [S |-> factor_vm("general_error", << S1, "ERROR_DIVIDE_BY_ZERO", tag_fixnum(x), tag_fixnum(y) >>),
                    ret |-> TRUE]
     ELSE [S |-> push(S1, tag_fixnum(c_div(x, y))), ret |-> TRUE]

HANDLER_FIXNUM_DIVMOD(S) ==
  LET y == untag_fixnum(peek(S))
      x == untag_fixnum(peek(pop(S)))
      S1 == pop(pop(S))
  IN IF y = 0 THEN [S |-> factor_vm("general_error", << S1, "ERROR_DIVIDE_BY_ZERO", tag_fixnum(x), tag_fixnum(y) >>),
                    ret |-> TRUE]
     ELSE [S |-> push(push(S1, tag_fixnum(c_div(x, y))), tag_fixnum(c_rem(x, y))), ret |-> TRUE]

\* sizeof(fixnum) * 8 - 1
max_shift == CellBits - 1
\* x << y and x >> y on a fixnum-typed, cell-wide integer
HANDLER_FIXNUM_SHIFT(S) ==
  LET y == untag_fixnum(peek(S))
      x == untag_fixnum(peek(pop(S)))
      S1 == pop(pop(S))
  IN IF y >= 0
     THEN (IF y > max_shift THEN [S |-> push(S1, tag_fixnum(0)), ret |-> TRUE]
           ELSE [S |-> push(S1, tag_fixnum(Wrap(x * 2 ^ y, CellBits))), ret |-> TRUE])
     ELSE (IF 0 - y > max_shift
           THEN [S |-> push(S1, tag_fixnum(IF x < 0 THEN 0 - 1 ELSE 0)), ret |-> TRUE]
           ELSE [S |-> push(S1, tag_fixnum(x \div 2 ^ (0 - y))), ret |-> TRUE])

HANDLER_SET_NTH(S) ==
  LET seq == peek(S)
      idx == peek(pop(S)).v
      elt == peek(pop(pop(S)))
      S1 == pop(pop(pop(S)))
  IN [S |-> IF seq.tag = "array" /\ idx >= 0 /\ idx < array_capacity(S, seq)
            THEN set_slot(S1, seq.v, idx + 1, elt) ELSE S1,
      ret |-> TRUE]

HANDLER_VALUE_WRITE(S) ==
  LET obj == peek(S)
      val == peek(pop(S))
      S1 == pop(pop(S))
      b1 == factor_vm("is_tuple_class", << S1, obj.v, "box", "box" >>)
      b2 == factor_vm("is_tuple_class", << b1.S, obj.v, "global_box", "global-box" >>)
      S2 == IF obj.tag # "tuple" THEN S1
            ELSE IF b1.ret THEN store_slot(b1.S, obj.v, 2, val)
            ELSE IF b2.ret THEN store_slot(b2.S, obj.v, 2, val)
            ELSE b2.S
  IN [S |-> push(S2, obj), ret |-> TRUE]

HANDLER_PROPS_WRITE(S) ==
  LET obj == peek(S)
      val == peek(pop(S))
      S1 == pop(pop(S))
  IN [S |-> push(IF obj.tag = "word" THEN store_slot(S1, obj.v, 3, val) ELSE S1, obj),
      ret |-> TRUE]

\* a & b on non-negative integers
RECURSIVE BitAnd(_, _)
BitAnd(a, b) ==
  IF a <= 0 \/ b <= 0 THEN 0
  ELSE (a % 2) * (b % 2) + 2 * BitAnd(a \div 2, b \div 2)

HANDLER_PROBE(S) ==
  LET probe_cell == peek(S)
      i_cell == peek(pop(S))
      array_cell == peek(pop(pop(S)))
      S1 == pop(pop(pop(S)))
      len == array_capacity(S, array_cell)
      probe == probe_cell.v + 2
  IN IF array_cell.tag # "array" \/ i_cell.tag # "fixnum" \/ probe_cell.tag # "fixnum"
       THEN [S |-> S1, ret |-> FALSE]
     ELSE IF len <= 0 THEN [S |-> S1, ret |-> FALSE]
     ELSE [S |-> push(push(push(S1, array_cell), Fix(BitAnd(i_cell.v + probe, len - 1))),
                      Fix(probe)),
           ret |-> TRUE]

(* equality *)
tag_boolean(S, b) == IF b THEN SO(S, "OBJ_CANONICAL_TRUE") ELSE false_object

\* length and bytes of the two strings agree
strings_equal(S, a, b) == ObjAt(S, a.v).data = ObjAt(S, b.v).data

tuple_class_name(S, t) ==
  ObjAt(S, slot_of(S, slot_of(S, slot_of(S, t.v, 1).v, 1).v, 1).v).data
is_tombstone(S, t) == tuple_class_name(S, t) = "tombstone"
tombstone_state(S, t) == to_boolean(slot_of(S, t.v, 2))

objects_equal(S, a, b) ==
  IF a = b THEN TRUE
  ELSE IF TAG(a) # TAG(b) THEN FALSE
  ELSE CASE a.tag = "fixnum" -> FALSE
         [] a.tag = "string" -> strings_equal(S, a, b)
         [] a.tag = "tuple" ->
              IF slot_of(S, a.v, 1) # slot_of(S, b.v, 1) THEN FALSE
              ELSE IF is_tombstone(S, a) THEN tombstone_state(S, a) = tombstone_state(S, b)
              ELSE FALSE
         [] OTHER -> FALSE

HANDLER_EQUAL(S) ==
  LET b == peek(S)
      a == peek(pop(S))
  IN [S |-> push(pop(pop(S)), tag_boolean(S, objects_equal(S, a, b))), ret |-> TRUE]

\* the word clone: a fresh object of the type and with the cells and bytes
\* of the object on top of the stack, which it replaces
clone(S) ==
  LET r == factor_vm("allot_object", << S, ObjAt(S, peek(S).v).type >>)
      x == peek(r.S)
  IN IF ~Alive(r.S) THEN r.S
     ELSE push(pop([r.S EXCEPT !.mem[r.a].slots = ObjAt(r.S, x.v).slots,
                               !.mem[r.a].data = ObjAt(r.S, x.v).data]),
               Ptr(x.tag, r.a))

(* method dispatch *)
\* the message is printed and the low-level debugger takes over
critical_error(S, msg) == [S EXCEPT !.status = "fatal", !.fatal_msg = msg]

array_nth(S, arr, i) == slot_of(S, arr.v, i + 1)

\* the value of the last pair of the alist whose key is klass
search_lookup_alist(S, table, klass) ==
  LET hits == {i \in 0 .. (array_capacity(S, table) - 2) :
                 i % 2 = array_capacity(S, table) % 2 /\ array_nth(S, table, i) = klass}
  IN IF hits = {} THEN false_object
     ELSE array_nth(S, table, (CHOOSE i \in hits : \A j \in hits : j <= i) + 1)

search_lookup_hash(S, table, klass, hashcode) ==
  LET bucket == array_nth(S, table, BitAnd(hashcode, array_capacity(S, table) - 1)) IN
  IF bucket.tag = "array" THEN search_lookup_alist(S, bucket, klass) ELSE bucket

\* the pairs behind the fixed fields of a tuple layout
nth_superclass(S, layout, echelon) == slot_of(S, layout.v, 4 + echelon * 2)
nth_hashcode(S, layout, echelon) == slot_of(S, layout.v, 5 + echelon * 2)

\* the loop of lookup_tuple_method, from the given echelon downwards
RECURSIVE lookup_tuple_method_from(_, _, _, _)
lookup_tuple_method_from(S, layout, echelons, echelon) ==
  LET echelon_methods == array_nth(S, echelons, echelon)
      result == search_lookup_hash(S, echelon_methods, nth_superclass(S, layout, echelon),
                                   untag_fixnum(nth_hashcode(S, layout, echelon)))
  IN IF echelon < 0
     THEN [S |-> critical_error(S, "Cannot find tuple method"), c |-> false_object]
     ELSE IF echelon_methods.tag = "word" THEN [S |-> S, c |-> echelon_methods]
     ELSE IF to_boolean(echelon_methods) /\ to_boolean(result) THEN [S |-> S, c |-> result]
     ELSE lookup_tuple_method_from(S, layout, echelons, echelon - 1)

lookup_tuple_method(S, obj, methods) ==
  LET layout == slot_of(S, obj.v, 1)
      top == untag_fixnum(slot_of(S, layout.v, 3))
      last == array_capacity(S, methods) - 1
  IN lookup_tuple_method_from(S, layout, methods, IF top <= last THEN top ELSE last)

\* the word has a property table with a key named key_name
word_has_prop(S, w, key_name) ==
  LET props == slot_of(S, w.v, 3)
      arr == slot_of(S, props.v, 4)
  IN /\ props.tag = "tuple"
     /\ untag_fixnum(slot_of(S, slot_of(S, props.v, 1).v, 2)) >= 3
     /\ arr.tag = "array"
     /\ \E j \in 0 .. (array_capacity(S, arr) - 2) :
          /\ j % 2 = 0
          /\ array_nth(S, arr, j).tag = "word"
          /\ ObjAt(S, slot_of(S, array_nth(S, arr, j).v, 1).v).data = key_name

\* the method an alist of predicate classes gives for the class named name
predicate_method(S, alist, name) ==
  LET hits == {i \in 0 .. (array_capacity(S, alist) - 2) :
                 /\ i % 2 = 0
                 /\ array_nth(S, alist, i).tag = "word"
                 /\ ObjAt(S, slot_of(S, array_nth(S, alist, i).v, 1).v).data = name}
  IN IF hits = {} THEN BadCell ELSE array_nth(S, alist, Min(hits) + 1)

lookup_method(S, obj, methods) ==
  LET method == array_nth(S, methods, TAG(obj))
      slot_zero == array_nth(S, methods, 0)
      found == predicate_method(S, method, "tuple-class")
  IN IF obj.tag = "tuple"
     THEN (IF method.tag = "array" THEN factor_vm("lookup_tuple_method", << S, obj, method >>)
           ELSE [S |-> S, c |-> method])
     ELSE IF method.tag = "array" /\ obj.tag # "word"
       THEN (IF array_capacity(S, methods) > 0 /\ slot_zero.tag = "word"
             THEN [S |-> S, c |-> slot_zero]
             ELSE [S |-> critical_error(S, "lookup_method: no method found and no no-method handler"),
                   c |-> false_object])
     ELSE IF method.tag = "array" /\ obj.tag = "word" /\ word_has_prop(S, obj, "superclass")
             /\ found # BadCell
       THEN [S |-> S, c |-> found]
     ELSE [S |-> S, c |-> method]

object_class(S, obj) == IF obj.tag = "tuple" THEN slot_of(S, obj.v, 1) ELSE tag_fixnum(TAG(obj))

\* klass >> TAG_BITS: the address of a layout in allocation units, the tag
\* number of any other class
method_cache_hashcode(S, klass, arr) ==
  BitAnd(klass.v, (array_capacity(S, arr) \div 2) - 1) * 2

update_method_cache(S, cache, klass, method) ==
  LET hashcode == method_cache_hashcode(S, klass, cache) IN
  set_slot(set_slot(S, cache.v, hashcode + 1, klass), cache.v, hashcode + 2, method)

\* the cell index places below the top of the data stack
stack_at(S, index) ==
  IF Len(S.ds) - index \in DOMAIN S.ds THEN S.ds[Len(S.ds) - index] ELSE BadCell

HANDLER_NO_METHOD(S) ==
  [S |-> fatal_error(S, "no-method error - see stderr for details"), ret |-> TRUE]

\* a lookup for the object on top of the stack, whatever the index
HANDLER_MEGA_CACHE_LOOKUP_top(S) ==
  LET cache == peek(S)
      methods == peek(pop(pop(S)))
      S1 == pop(pop(pop(S)))
      object == stack_at(S1, 0)
      r == factor_vm("lookup_method", << S1, object, methods >>)
      S2 == factor_vm("update_method_cache", << r.S, cache, object_class(r.S, object), r.c >>)
  IN IF ~Alive(r.S) THEN [S |-> r.S, ret |-> TRUE]
     ELSE [S |-> push_callable_work(S2, r.c), ret |-> TRUE]

HANDLER_MEGA_CACHE_LOOKUP(S) ==
  LET cache == peek(S)
      index == untag_fixnum(peek(pop(S)))
      methods == peek(pop(pop(S)))
      S1 == pop(pop(pop(S)))
      object == stack_at(S1, index)
      r == factor_vm("lookup_method", << S1, object, methods >>)
      S2 == factor_vm("update_method_cache", << r.S, cache, object_class(r.S, object), r.c >>)
  IN IF ~Alive(r.S) THEN [S |-> r.S, ret |-> TRUE]
     ELSE [S |-> push_callable_work(S2, r.c), ret |-> TRUE]

HANDLER_WRAP(S) ==
  LET array_cell == peek(S)
      i_cell == peek(pop(S))
      S1 == pop(pop(S))
      len == array_capacity(S, array_cell)
  IN IF array_cell.tag # "array" \/ i_cell.tag # "fixnum" THEN [S |-> S1, ret |-> FALSE]
     ELSE IF len <= 0 THEN [S |-> S1, ret |-> FALSE]
     ELSE [S |-> push(S1, Fix(BitAnd(i_cell.v, len - 1))), ret |-> TRUE]

HANDLER_STRING_HASHCODE(S) ==
  LET str_cell == peek(S)
      S1 == pop(S)
  IN IF str_cell.tag # "string" THEN [S |-> S1, ret |-> FALSE]
     ELSE [S |-> push(S1, slot_of(S1, str_cell.v, 1)), ret |-> TRUE]

HANDLER_SET_STRING_HASHCODE(S) ==
  LET str_cell == peek(S)
      hash == peek(pop(S))
      S1 == pop(pop(S))
  IN IF str_cell.tag # "string" THEN [S |-> S1, ret |-> FALSE]
     ELSE [S |-> store_slot(S1, str_cell.v, 1, hash), ret |-> TRUE]

\* ( x y -- x y x )
over(S) ==
  LET top == peek(S)
      second == peek(pop(S))
  IN push(push(pop(S), top), second)
\* ( x y z -- x y z x y ), in dispatch_by_handler_id and dispatch_subprimitive
two_over_xyz(S) ==
  LET z == peek(S)
      y == peek(pop(S))
      x == peek(pop(pop(S)))
  IN push(push(push(push(pop(pop(S)), y), z), x), y)
\* ( a b c d -- a b c d a b ), in trampoline_dispatch_handler
two_over_abcd(S) ==
  LET d == peek(S)
      c == peek(pop(S))
      b == peek(pop(pop(S)))
      a == peek(pop(pop(pop(S))))
  IN push(push(push(push(push(pop(pop(pop(S))), b), c), d), a), b)

\* the dispatcher that switches on the hash of the word's name
dispatch_subprimitive(S, name) ==
  CASE name = "dup" -> [S |-> push(S, peek(S)), ret |-> TRUE]
    [] name = "drop" -> [S |-> pop(S), ret |-> TRUE]
    [] name = "over" -> [S |-> over(S), ret |-> TRUE]
    [] name = "2over" -> [S |-> two_over_xyz(S), ret |-> TRUE]
    [] OTHER -> [S |-> S, ret |-> FALSE]

callable_p(c) == c.tag \in {"quotation", "word", "wrapper", "tuple"}

\* the loop of call_callable: work holds callables, qstack the quotations
\* under way as << array, len, idx >>, each with its top last
RECURSIVE call_callable_loop(_, _, _)
call_callable_loop(S, work, qstack) ==
  LET qs == Last(qstack)
      elem == slot_of(S, qs[1].v, qs[3] + 1)
      advanced == Append(Front(qstack), << qs[1], qs[2], qs[3] + 1 >>)
      current == Last(work)
      arr == quot_array(S, current)
      d0 == slot_of(S, current.v, 2)
      d1 == slot_of(S, current.v, 3)
      layout == slot_of(S, current.v, 1)
      c1 == factor_vm("is_tuple_class", << S, current.v, "curried", "curried" >>)
      c2 == factor_vm("is_tuple_class", << c1.S, current.v, "composed", "composed" >>)
      second_first == (IF callable_p(d1) THEN << d1 >> ELSE << >>)
                        \o (IF callable_p(d0) THEN << d0 >> ELSE << >>)
  IN IF ~Alive(S) THEN S
     ELSE IF qstack # << >> THEN
       (IF qs[3] >= qs[2] THEN call_callable_loop(S, work, Front(qstack))
        ELSE IF elem.tag = "word"
          THEN call_callable_loop(factor_vm("interpret_word", << S, elem >>), work, advanced)
        ELSE IF elem.tag = "wrapper"
          THEN call_callable_loop(push(S, slot_of(S, elem.v, 1)), work, advanced)
        ELSE call_callable_loop(push(S, elem), work, advanced))
     ELSE IF work = << >> THEN S
     ELSE IF current.tag = "quotation" THEN
       call_callable_loop(S, Front(work),
                          IF array_capacity(S, arr) > 0
                          THEN << << arr, array_capacity(S, arr), 0 >> >> ELSE << >>)
     ELSE IF current.tag = "word"
       THEN call_callable_loop(factor_vm("interpret_word", << S, current >>), Front(work), << >>)
     ELSE IF current.tag = "wrapper"
       THEN call_callable_loop(S, Append(Front(work), slot_of(S, current.v, 1)), << >>)
     ELSE IF current.tag = "tuple" THEN
       (IF S.g_layout["curried"] # Fix(0) /\ layout = S.g_layout["curried"]
          THEN call_callable_loop(push(S, d0), Append(Front(work), d1), << >>)
        ELSE IF S.g_layout["composed"] # Fix(0) /\ layout = S.g_layout["composed"]
          THEN call_callable_loop(S, Front(work) \o second_first, << >>)
        ELSE IF c1.ret THEN call_callable_loop(push(c1.S, d0), Append(Front(work), d1), << >>)
        ELSE IF c2.ret THEN call_callable_loop(c2.S, Front(work) \o second_first, << >>)
        ELSE call_callable_loop(c2.S, Front(work), << >>))
     ELSE call_callable_loop(S, Front(work), << >>)

call_callable(S, callable) == call_callable_loop(S, << callable >>, << >>)

\* recover: the recovery quotation is dropped, the try quotation is called
HANDLER_RECOVER(S) ==
  [S |-> factor_vm("call_callable", << pop(pop(S)), peek(pop(S)) >>), ret |-> TRUE]

dispatch_by_handler_id(S, id) ==
  CASE id = "HANDLER_DROP" -> [S |-> pop(S), ret |-> TRUE]
    [] id = "HANDLER_DUP" -> [S |-> push(S, peek(S)), ret |-> TRUE]
    [] id = "HANDLER_OVER" -> [S |-> over(S), ret |-> TRUE]
    [] id = "HANDLER_2OVER" -> [S |-> two_over_xyz(S), ret |-> TRUE]
    [] id = "HANDLER_RECOVER" -> HANDLER_RECOVER(S)
    [] id = "HANDLER_FIXNUM_MOD" -> HANDLER_FIXNUM_MOD(S)
    [] id = "HANDLER_SET_NTH" -> HANDLER_SET_NTH(S)
    [] id = "HANDLER_VALUE_WRITE" -> HANDLER_VALUE_WRITE(S)
    [] id = "HANDLER_PROPS_WRITE" -> HANDLER_PROPS_WRITE(S)
    [] id = "HANDLER_CURRY_WORD" -> HANDLER_CURRY_WORD(S)
    [] id = "HANDLER_2CURRY" -> HANDLER_2CURRY(S)
    [] id = "HANDLER_PROBE" -> HANDLER_PROBE(S)
    [] id = "HANDLER_WRAP" -> HANDLER_WRAP(S)
    [] id = "HANDLER_STRING_HASHCODE" -> HANDLER_STRING_HASHCODE(S)
    [] id = "HANDLER_SET_STRING_HASHCODE" -> HANDLER_SET_STRING_HASHCODE(S)
    [] id = "HANDLER_FIXNUM_PLUS" -> HANDLER_FIXNUM_PLUS(S)
    [] id = "HANDLER_FIXNUM_TIMES" -> HANDLER_FIXNUM_TIMES(S)
    [] id = "HANDLER_FIXNUM_MINUS" -> HANDLER_FIXNUM_MINUS(S)
    [] id = "HANDLER_FIXNUM_DIVI" -> HANDLER_FIXNUM_DIVI(S)
    [] id = "HANDLER_FIXNUM_DIVMOD" -> HANDLER_FIXNUM_DIVMOD(S)
    [] id = "HANDLER_FIXNUM_SHIFT" -> HANDLER_FIXNUM_SHIFT(S)
    [] id = "HANDLER_NO_METHOD" -> HANDLER_NO_METHOD(S)
    [] id = "HANDLER_EQUAL" -> HANDLER_EQUAL(S)
    [] OTHER -> [S |-> S, ret |-> FALSE]

\* bi queued with q below x below p
HANDLER_BI_q_first(S) ==
  LET q == peek(S)
      p == peek(pop(S))
      x == peek(pop(pop(S)))
  IN [S |-> push_callable_work(push_value_work(push_callable_work(pop(pop(S)), p), x), q),
      ret |-> TRUE]

\* bi ( x p q ): x stays on the stack for p; the work stack gets q, then the
\* push of x, then p, so that p is the first to run
HANDLER_BI(S) ==
  LET q == peek(S)
      p == peek(pop(S))
      x == peek(pop(pop(S)))
  IN [S |-> push_callable_work(push_value_work(push_callable_work(pop(pop(S)), q), x), p),
      ret |-> TRUE]

HANDLER_2DIP(S) ==
  LET quot == peek(S)
      y == peek(pop(S))
      x == peek(pop(pop(S)))
  IN [S |-> push_callable_work(push_restore_2(pop(pop(pop(S))), x, y), quot), ret |-> TRUE]

HANDLER_3DIP(S) ==
  LET quot == peek(S)
      z == peek(pop(S))
      y == peek(pop(pop(S)))
      x == peek(pop(pop(pop(S))))
  IN [S |-> push_callable_work(push_restore_3(pop(pop(pop(pop(S)))), x, y, z), quot),
      ret |-> TRUE]

\* loop that runs its quotation once and never looks at the result
HANDLER_LOOP_once(S) == [S |-> push_callable_work(pop(S), peek(S)), ret |-> TRUE]

\* the quotation is executed first, its result checked afterwards
HANDLER_LOOP(S) ==
  [S |-> push_callable_work(push_loop_work(pop(S), peek(S)), peek(S)), ret |-> TRUE]

trampoline_dispatch_handler(S, id) ==
  CASE id = "HANDLER_CALL" ->
         [S |-> push_callable_work(pop(S), peek(S)), ret |-> TRUE]
    [] id = "HANDLER_DIP" ->
         [S |-> push_callable_work(push_restore_1(pop(pop(S)), peek(pop(S))), peek(S)),
          ret |-> TRUE]
    [] id = "HANDLER_LOOP" -> HANDLER_LOOP(S)
    [] id = "HANDLER_2DIP" -> HANDLER_2DIP(S)
    [] id = "HANDLER_3DIP" -> HANDLER_3DIP(S)
    [] id = "HANDLER_BI" -> HANDLER_BI(S)
    [] id = "HANDLER_MEGA_CACHE_LOOKUP" -> HANDLER_MEGA_CACHE_LOOKUP(S)
    [] id = "HANDLER_DUP" -> [S |-> push(S, peek(S)), ret |-> TRUE]
    [] id = "HANDLER_OVER" -> [S |-> over(S), ret |-> TRUE]
    [] id = "HANDLER_2OVER" -> [S |-> two_over_abcd(S), ret |-> TRUE]
    [] id = "HANDLER_DROP" -> [S |-> pop(S), ret |-> TRUE]
    [] OTHER -> dispatch_by_handler_id(S, id)

(* ------------------------------ primitives ----------------------------- *)
array_size_max == 2
signal_number == 11

\* pops the size; a size out of range raises ERROR_ARRAY_SIZE and, the
\* error having returned, yields 0
unbox_array_size(S) ==
  LET obj == peek(S)
      S1 == pop(S)
  IN IF obj.tag = "fixnum" /\ obj.v >= 0 /\ obj.v < array_size_max
     THEN [S |-> S1, n |-> obj.v]
     ELSE [S |-> factor_vm("general_error", << S1, "ERROR_ARRAY_SIZE", obj, Fix(array_size_max) >>), n |-> 0]

allot_array(S, capacity, fill_) ==
  LET r == factor_vm("allot_object", << data_root(S, fill_, "fill"), "array" >>)
      S1 == set_slots(r.S, r.a, [i \in 1 .. capacity |-> root_top(r.S)])
  IN [S |-> release(S1, "fill"), c |-> Ptr("array", r.a)]

primitive_array(S) ==
  LET fill == peek(S)
      u == factor_vm("unbox_array_size", << pop(S) >>)
      r == factor_vm("allot_array", << u.S, u.n, fill >>)
  IN IF ~Alive(u.S) THEN u.S
     ELSE IF ~Alive(r.S) THEN r.S
     ELSE push(r.S, r.c)

primitive_tuple_boa(S) ==
  LET r == factor_vm("allot_object", << data_root(pop(S), peek(S), "layout"), "tuple" >>)
      layout == root_top(r.S)
      S1 == release(r.S, "layout")
      num_slots == slot_of(S1, layout.v, 2).v
      depth == Len(S1.ds)
      \* src = datastack - size: the cell num_slots below the top cell
      src == depth - num_slots
      fields == IF src < 1
                THEN S1.ds \o [i \in 1 .. (num_slots - depth) |-> false_object]
                ELSE SubSeq(S1.ds, src, depth - 1)
      rest == IF src < 1 THEN << >> ELSE SubSeq(S1.ds, 1, src)
      S2 == set_slots([S1 EXCEPT !.ds = rest], r.a, <<layout>> \o fields)
  IN IF ~Alive(r.S) THEN r.S ELSE push(S2, Ptr("tuple", r.a))

\* history: the primitives invoked since the host's call, in order
note_primitive(S, name) == [S EXCEPT !.prims = Append(@, name)]

\* a dispatch that reports success without invoking anything
dispatch_primitive_call_none(S, name) == [S |-> S, ret |-> TRUE]

dispatch_primitive_call(S, name) ==
  LET S0 == note_primitive(S, name) IN
  CASE name = "primitive_tuple_boa" -> [S |-> primitive_tuple_boa(S0), ret |-> TRUE]
    [] name = "primitive_array" -> [S |-> primitive_array(S0), ret |-> TRUE]
    [] name = "primitive_full_gc" -> [S |-> primitive_full_gc(S0), ret |-> TRUE]
    [] name = "primitive_minor_gc" -> [S |-> factor_vm("primitive_minor_gc", << S0 >>), ret |-> TRUE]
    [] OTHER -> [S |-> S, ret |-> FALSE]

(* ----------------------------- run_trampoline -------------------------- *)
LiteralTags == {"fixnum", "f", "array", "float", "quotation", "bignum", "alien", "tuple",
                "byte_array", "callstack", "string"}

\* literals is history: the stack before and after each literal push, with
\* the position in trace of the element pushed
push_literal(S, obj) ==
  LET S1 == push(S, obj)
  IN [S1 EXCEPT !.literals = Append(@, [j |-> Len(S.trace), n0 |-> Len(S.ds),
                                        n1 |-> Len(S1.ds), top |-> peek(S1)])]

\* history: an element of a quotation is executed while a raised error's
\* handler is still waiting on the work stack
note_element(S) == IF S.err_pending THEN [S EXCEPT !.err_overrun = TRUE] ELSE S

\* trace is history: the elements processed and the words executed since the
\* host's call, each with the number of work items then waiting
note_processed(S, array_tagged, idx, obj) ==
  [S EXCEPT !.trace = Append(@, [k |-> "elem", a |-> array_tagged.v, i |-> idx,
                                 c |-> obj, d |-> Len(S.tramp)])]
note_executed(S, w) ==
  [S EXCEPT !.trace = Append(@, [k |-> "exec", a |-> 0, i |-> 0, c |-> w, d |-> Len(S.tramp)])]

\* the word goes on the work stack before the rest of the quotation
push_word_and_continuation(S, array_tagged, len, idx, obj) ==
  push_quotation_work(push_word_work(S, obj), array_tagged, len, idx)

\* the word case: the rest of the quotation is saved, then the word is pushed
push_continuation_and_word(S, array_tagged, len, idx, obj) ==
  push_word_work(push_quotation_work(S, array_tagged, len, idx), obj)

\* the local loop of QUOTATION_CONTINUE, from element idx (0-based)
RECURSIVE quotation_loop(_, _, _, _)
quotation_loop(S, array_tagged, len, idx) ==
  LET elements == ObjAt(S, array_tagged.v)
      obj == IF idx + 1 \in DOMAIN elements.slots THEN elements.slots[idx + 1] ELSE BadCell
      nxt == IF idx + 2 \in DOMAIN elements.slots THEN elements.slots[idx + 2] ELSE BadCell
      S0 == note_processed(note_element(S), array_tagged, idx, obj)
      p == factor_vm("dispatch_primitive_call", << S0, ObjAt(S0, obj.v).data >>)
  IN IF ~Alive(S) \/ idx >= len THEN S
     ELSE IF obj.tag = "byte_array" /\ idx + 1 < len /\ nxt = SO(S, "JIT_PRIMITIVE_WORD")
       THEN (IF ~p.ret THEN fatal_error(S0, "Unknown primitive in wasm interpreter")
             ELSE quotation_loop(p.S, array_tagged, len, idx + 2))
     ELSE IF obj.tag = "array" /\ idx + 1 < len /\ nxt = SO(S, "JIT_DECLARE_WORD")
       THEN quotation_loop(S0, array_tagged, len, idx + 2)
     ELSE IF obj.tag \in LiteralTags
       THEN quotation_loop(push_literal(S0, obj), array_tagged, len, idx + 1)
     ELSE IF obj.tag = "wrapper"
       THEN quotation_loop(push(S0, slot_of(S0, obj.v, 1)), array_tagged, len, idx + 1)
     ELSE IF obj.tag = "word"
       THEN push_continuation_and_word(S0, array_tagged, len, idx + 1, obj)
     ELSE fatal_error(S0, "Unsupported object type in quotation")

\* the fallback of EXECUTE_WORD: the word's quotation definition
push_word_def(S, w) ==
  LET def == slot_of(S, w.v, 2)
      arr == quot_array(S, def)
  IN IF def.tag = "quotation" THEN push_quotation_work(S, arr, array_capacity(S, arr), 0)
     ELSE S

\* history: the names of the words executed since the host's call, in order
note_exec(S, w) == [S EXCEPT !.execs = Append(@, ObjAt(S, slot_of(S, w.v, 1).v).data)]

\* chosen is history: what the execution of a word did, word by word
note_chosen(S, w, what) == [S EXCEPT !.chosen = Append(@, << w, what >>)]

execute_word(S0, w) ==
  LET S == note_executed(note_exec(S0, w), w)
      cached == get_cached_handler_id(S, w)
      S1 == IF cached = "HANDLER_UNCACHED" THEN factor_vm("lookup_and_cache_handler_id", << S, w >>) ELSE S
      cached_id == IF cached = "HANDLER_UNCACHED" THEN lookup_handler_id(S, w) ELSE cached
      r == factor_vm("trampoline_dispatch_handler", << note_chosen(S1, w, "handler"), cached_id >>)
  IN IF cached_id = "HANDLER_NONE"
       THEN factor_vm("push_word_def", << note_chosen(S1, w, "definition"), w >>)
     ELSE IF ~r.ret THEN factor_vm("push_word_def", << note_chosen(r.S, w, "definition"), w >>)
     ELSE r.S

\* interpret_word called by the host or by a handler
interpret_word(S, w) ==
  IF S.in_trampoline THEN push_word_work(S, w)
  ELSE trampoline_return(push_word_work(TrampolineGuard(S), w))

\* second queued above first
call_composed_second_first(S, first, second) ==
  push_callable_work(push_callable_work(S, first), second)

\* a composed tuple: the work stack is LIFO, so second is pushed first
call_composed(S, first, second) ==
  push_callable_work(push_callable_work(S, second), first)

call_callable_item(S, callable) ==
  LET layout == slot_of(S, callable.v, 1)
      d0 == slot_of(S, callable.v, 2)
      d1 == slot_of(S, callable.v, 3)
      arr == quot_array(S, callable)
      c1 == factor_vm("is_tuple_class", << S, callable.v, "curried", "curried" >>)
      c2 == factor_vm("is_tuple_class", << c1.S, callable.v, "composed", "composed" >>)
  IN CASE callable.tag = "quotation" -> push_quotation_work(S, arr, array_capacity(S, arr), 0)
       [] callable.tag = "word" -> push_word_work(S, callable)
       [] callable.tag = "wrapper" -> push_callable_work(S, slot_of(S, callable.v, 1))
       [] callable.tag = "tuple" ->
            IF S.g_layout["curried"] # Fix(0) /\ layout = S.g_layout["curried"]
              THEN push_callable_work(push(S, d0), d1)
            ELSE IF S.g_layout["composed"] # Fix(0) /\ layout = S.g_layout["composed"]
              THEN call_composed(S, d0, d1)
            ELSE IF c1.ret THEN push_callable_work(push(c1.S, d0), d1)
            ELSE IF c2.ret THEN call_composed(c2.S, d0, d1)
            ELSE c2.S
       [] OTHER -> S

\* the item is the one unwind_native_frames queued for the error handler
handler_item_p(S, item) ==
  /\ item.type = "QUOTATION_CONTINUE"
  /\ item.index = 0
  /\ item.cells = << quot_array(S, SO(S, "ERROR_HANDLER_QUOT")) >>

\* one iteration of the loop of run_trampoline
\* LOOP_CONTINUE: the result of the body is popped; truthy, the check and
\* the body are queued again
loop_continue(S, quotation) ==
  IF Len(S.ds) = 0 THEN fatal_error(S, "LOOP_CONTINUE with empty stack")
  ELSE IF to_boolean(peek(S))
    THEN push_callable_work(push_loop_work(pop(S), quotation), quotation)
  ELSE pop(S)

Reverse(s) == [i \in 1 .. Len(s) |-> s[Len(s) + 1 - i]]
\* the saved values pushed last first
restore_values_reversed(S, values) == [S EXCEPT !.ds = @ \o Reverse(values)]

\* RESTORE_VALUES: values[0] .. values[count - 1] are pushed in that order
restore_values(S, values) == [S EXCEPT !.ds = @ \o values]

\* calls is history: the callables the CALL_CALLABLE items invoked
note_call(S, callable) == [S EXCEPT !.calls = Append(@, callable)]

run_item(S) ==
  LET item == Last(S.tramp)
      starts == S.err_pending /\ handler_item_p(S, item)
      S1 == [S EXCEPT !.tramp = Front(@),
                      !.err_pending = IF starts THEN FALSE ELSE @,
                      !.err_overrun = IF S.err_pending /\ ~starts THEN TRUE ELSE @]
  IN CASE item.type = "QUOTATION_CONTINUE" ->
            quotation_loop(S1, item.cells[1], item.length, item.index)
       [] item.type = "EXECUTE_WORD" -> execute_word(S1, item.cells[1])
       [] item.type = "CALL_CALLABLE" ->
            call_callable_item(note_call(S1, item.cells[1]), item.cells[1])
       [] item.type = "RESTORE_VALUES" -> restore_values(S1, item.cells)
       [] item.type = "LOOP_CONTINUE" -> loop_continue(S1, item.cells[1])
       [] item.type = "PUSH_VALUE" -> push(S1, item.cells[1])
       [] OTHER -> S1

\* one iteration of the loop of run_trampoline and the test of its condition
run_trampoline_step(S) == trampoline_return(factor_vm("run_item", << S >>))

\* interpret_quotation: inside the trampoline the work is queued for the
\* running loop; outside, the guard is set, the work is queued and the loop
\* of run_trampoline takes it from there
interpret_quotation(S, quot) ==
  IF S.in_trampoline THEN interpret_quotation_nested(S, quot)
  ELSE trampoline_return(interpret_quotation_nested(TrampolineGuard(S), quot))

synchronous_signal_handler_impl(S) ==
  factor_vm("general_error", << S, "ERROR_SIGNAL", Fix(signal_number), false_object >>)

\* a call of a member function of factor_vm: the functions of the collector,
\* the allocator, the error path and the interpreter call each other, so
\* their calls go through this one recursive definition
factor_vm(method, args) ==
  CASE method = "run_item" ->
        run_item(args[1])
    [] method = "fixnum_overflow" ->
        fixnum_overflow(args[1], args[2], args[3], args[4])
    [] method = "lookup_method" ->
        lookup_method(args[1], args[2], args[3])
    [] method = "lookup_tuple_method" ->
        lookup_tuple_method(args[1], args[2], args[3])
    [] method = "update_method_cache" ->
        update_method_cache(args[1], args[2], args[3], args[4])
    [] method = "interpret_word" ->
        interpret_word(args[1], args[2])
    [] method = "call_callable" ->
        call_callable(args[1], args[2])
    [] method = "dispatch_by_handler_id" ->
        dispatch_by_handler_id(args[1], args[2])
    [] method = "dispatch_subprimitive" ->
        dispatch_subprimitive(args[1], args[2])
    [] method = "interpret_quotation" ->
        interpret_quotation(args[1], args[2])
    [] method = "synchronous_signal_handler_impl" ->
        synchronous_signal_handler_impl(args[1])
    [] method = "gc_collect" ->
        gc_collect(args[1])
    [] method = "gc_escalate" ->
        gc_escalate(args[1])
    [] method = "gc_begin" ->
        gc_begin(args[1], args[2])
    [] method = "trampoline_dispatch_handler" ->
        trampoline_dispatch_handler(args[1], args[2])
    [] method = "gc" ->
        gc(args[1], args[2])
    [] method = "allot_object" ->
        allot_object(args[1], args[2])
    [] method = "general_error" ->
        general_error(args[1], args[2], args[3], args[4])
    [] method = "fixup_data" ->
        fixup_data(args[1], args[2], args[3])
    [] method = "find_free_block" ->
        find_free_block(args[1], args[2])
    [] method = "visit_slots" ->
        visit_slots(args[1], args[2], args[3])
    [] method = "collect_mark_impl" ->
        collect_mark_impl(args[1])
    [] method = "visit_root_cells" ->
        visit_root_cells(args[1], args[2], args[3], args[4])
    [] method = "visit_cards" ->
        visit_cards(args[1], args[2], args[3], args[4], args[5], args[6])
    [] method = "collect_full" ->
        collect_full(args[1])
    [] method = "is_tuple_class" ->
        is_tuple_class(args[1], args[2], args[3], args[4])
    [] method = "curried_tuple" ->
        curried_tuple(args[1], args[2], args[3], args[4])
    [] method = "collect_compact_impl" ->
        collect_compact_impl(args[1])
    [] method = "collect_aging" ->
        collect_aging(args[1])
    [] method = "dispatch_primitive_call" ->
        dispatch_primitive_call(args[1], args[2])
    [] method = "allot_array_4" ->
        allot_array_4(args[1], args[2], args[3], args[4], args[5])
    [] method = "tenured_allot" ->
        tenured_allot(args[1])
    [] method = "visit_mark_stack" ->
        visit_mark_stack(args[1], args[2])
    [] method = "lookup_and_cache_handler_id" ->
        lookup_and_cache_handler_id(args[1], args[2])
    [] method = "unbox_array_size" ->
        unbox_array_size(args[1])
    [] method = "collect_nursery" ->
        collect_nursery(args[1])
    [] method = "push_word_def" ->
        push_word_def(args[1], args[2])
    [] method = "collect_to_tenured" ->
        collect_to_tenured(args[1])
    [] method = "then_full_if_fragmented" ->
        then_full_if_fragmented(args[1])
    [] method = "visit_handle" ->
        visit_handle(args[1], args[2], args[3])
    [] method = "allot_array" ->
        allot_array(args[1], args[2], args[3])
    [] method = "collect_compact" ->
        collect_compact(args[1])
    [] method = "visit_object" ->
        visit_object(args[1], args[2], args[3])
    [] method = "visit_deck_cards" ->
        visit_deck_cards(args[1], args[2], args[3], args[4], args[5], args[6])
    [] method = "copy_to_aging_or_tenured" ->
        copy_to_aging_or_tenured(args[1], args[2])
    [] method = "visit_all_roots" ->
        visit_all_roots(args[1], args[2])
    [] method = "primitive_minor_gc" ->
        primitive_minor_gc(args[1])
    [] method = "visit_card" ->
        visit_card(args[1], args[2], args[3])
    [] method = "cheneys_algorithm" ->
        cheneys_algorithm(args[1], args[2], args[3])

(* ------------------------------ the machine ---------------------------- *)
VARIABLES vm, run

vars == << vm, run >>

\* what a cell shows of its value, whatever address the object has
View(S, c) ==
  IF immediate_p(c) THEN c
  ELSE [tag |-> c.tag,
        slots |-> [i \in DOMAIN ObjAt(S, c.v).slots |->
                     LET s == ObjAt(S, c.v).slots[i] IN
                     IF immediate_p(s) THEN s ELSE [tag |-> s.tag, v |-> 0]]]
Views(S, cs) == [i \in DOMAIN cs |-> View(S, cs[i])]

NoRun == [prog |-> "none", ds0 |-> << >>, n |-> 0, ret |-> TRUE, active0 |-> FALSE]
\* the host's record of a call that is not a quotation to compare
Called == [NoRun EXCEPT !.n = run.n + 1, !.active0 = vm.in_trampoline]

\* operands a program takes from the data stack
StackNeed ==
  [ q_mk |-> 0, q_mkdip |-> 1, q_recurry |-> 1, q_store |-> 1, q_props |-> 1,
    q_setnth |-> 1, q_drop |-> 1, q_fullgc |-> 0, q_minorgc |-> 0, q_mod0 |-> 0,
    q_badarray |-> 0, q_2c |-> 2, q_cc |-> 1, q_plain |-> 0,
    q_prim |-> 0, q_declare |-> 0, q_unknown |-> 0, q_bi |-> 0, q_gen |-> 1, q_gen1 |-> 2, q_dup |-> 1,
    q_dll |-> 0, q_f |-> 0, q_try |-> 0 ]

\* the VM after the image is loaded: the image fills the low end of tenured
\* space, young generations are empty, no quotation is running
Boot(handler) ==
  initial_free_list(
    [ mem |-> [a \in Addr |->
                 IF a < tenured_start + ImageUnits
                 THEN ImageObj(ImageNames[a - tenured_start + 1]) ELSE BadObj],
      nursery_here |-> nursery_start,
      aging_start |-> semi_a_start, aging_here |-> semi_a_start,
      semi_here |-> semi_b_start,
      small_blocks |-> [i \in 0 .. (free_list_count - 1) |-> << >>],
      large_blocks |-> << >>, free_block_count |-> 0, free_space |-> 0,
      marked |-> {}, mark_stack |-> << >>,
      cards |-> [a \in Addr |-> {}],
      decks |-> [d \in 0 .. DeckOf(data_end - 1) |-> {}],
      special_objects |-> << W("w_do_primitive"), W("w_declare"), handler, A("startup"),
                             W("w_t") >>,
      ds |-> << >>, rs |-> << >>, data_roots |-> << >>,
      root_handles |-> << >>, root_misrelease |-> FALSE,
      status |-> "running", fatal_msg |-> "",
      current_gc |-> "none", gc_ops |-> << >>, gc_runs |-> << >>, gc_stage |-> "idle",
      gc_off |-> FALSE,
      g_layout |-> [n \in LayoutCaches |-> Fix(0)],
      tramp |-> << >>,
      faulting_p |-> FALSE, err_pending |-> FALSE, err_overrun |-> FALSE,
      stale_store |-> FALSE, raised |-> NoRaise,
      in_trampoline |-> FALSE, guards |-> << >>, loops |-> 0,
      compacted |-> NotCompacted, allotted |-> NoAllot, prims |-> << >>,
      execs |-> << >>, trace |-> << >>, chosen |-> << >>, literals |-> << >>, calls |-> << >>, gc_starts |-> << >>,
      points_to_nursery |-> {}, points_to_aging |-> {}, region |-> FreshRegion, copies |-> << >>, scans |-> << >>, fixups |-> << >>, young_refs |-> {} ],
    ImageUnits)

Init ==
  /\ vm \in {Boot(false_object), Boot(Q("q_handler"))}
  /\ run = NoRun

Idle == vm.status = "running" /\ vm.current_gc = "none" /\ vm.tramp = << >>

\* the host runs the i-th quotation of the startup array
Enter(i) ==
  /\ Idle
  /\ run.n < MaxRuns
  /\ Len(vm.ds) <= MaxDepth
  /\ Len(vm.ds) >= StackNeed[Programs[i]]
  /\ vm' = factor_vm("interpret_quotation",
                     << [vm EXCEPT !.prims = << >>, !.execs = << >>, !.trace = << >>, !.chosen = << >>,
                                 !.literals = << >>, !.calls = << >>], slot_of(vm, SO(vm, "OBJ_GLOBAL").v, i) >>)
  /\ run' = [prog |-> Programs[i], ds0 |-> Views(vm, vm.ds), n |-> run.n + 1, ret |-> TRUE,
             active0 |-> vm.in_trampoline]

\* one iteration of the loop of run_trampoline
Step ==
  /\ vm.status = "running"
  /\ vm.current_gc = "none"
  /\ vm.tramp # << >>
  /\ vm' = run_trampoline_step(vm)
  /\ UNCHANGED run

\* gc() called by the host, one stage at a time
GcBegin(op) ==
  /\ Idle
  /\ run.n < MaxRuns
  /\ ~vm.gc_off
  /\ vm' = factor_vm("gc_begin", << vm, op >>)
  /\ run' = Called

GcEscalate ==
  /\ vm.status = "running"
  /\ vm.gc_stage = "begun"
  /\ vm' = factor_vm("gc_escalate", << vm >>)
  /\ UNCHANGED run

GcCollect ==
  /\ vm.status = "running"
  /\ vm.gc_stage = "escalated"
  /\ vm' = factor_vm("gc_collect", << vm >>)
  /\ UNCHANGED run

\* a synchronous signal reaches the VM between host calls or inside gc()
Signal ==
  /\ vm.status = "running"
  /\ vm.tramp = << >>
  /\ run.n < MaxRuns
  /\ Len(vm.ds) <= MaxDepth
  /\ vm' = factor_vm("synchronous_signal_handler_impl", << vm >>)
  /\ run' = Called

Next ==
  \/ \E i \in DOMAIN Programs : Enter(i)
  \/ Step
  \/ \E op \in SeqToSet(GcOpOrder) : GcBegin(op)
  \/ GcEscalate
  \/ GcCollect
  \/ Signal

Spec == Init /\ [][Next]_vars

\* the host runs one of the quotations named in P
Run(P) == \E i \in DOMAIN Programs : Programs[i] \in P /\ Enter(i)

InitInstalled == vm = Boot(Q("q_handler")) /\ run = NoRun

\* allocation with values held on the stack, on the work stack and in locals
RootsPrograms == {"q_mk", "q_mkdip", "q_recurry", "q_2c", "q_drop"}
NextRoots == Run(RootsPrograms) \/ Step
SpecRoots == InitInstalled /\ [][NextRoots]_vars

\* stores into heap objects
BarrierPrograms == {"q_mk", "q_store", "q_props", "q_setnth", "q_drop"}
NextBarrier == Run(BarrierPrograms) \/ Step
SpecBarrier == InitInstalled /\ [][NextBarrier]_vars

\* curry and call
CurryPrograms == {"q_mk", "q_cc", "q_drop"}
NextCurry == Run(CurryPrograms) \/ Step
SpecCurry == InitInstalled /\ [][NextCurry]_vars

\* gc() called by the host on heaps the interpreter has filled
GcPrograms == {"q_mk", "q_drop"}
\* host calls in the specifications that collect
MaxGcRuns == 5
NextGc ==
  \/ run.n < MaxGcRuns /\ Run(GcPrograms)
  \/ Step
  \/ run.n < MaxGcRuns /\ \E op \in SeqToSet(GcOpOrder) : GcBegin(op)
  \/ GcEscalate
  \/ GcCollect
SpecGc == InitInstalled /\ [][NextGc]_vars
\* gc() is one host call: once begun, its stages are run to the end.
\* GcCollect is enabled exactly in the states CollectPending, where it ends
\* the call or the VM, so its weak fairness is written with that predicate.
CollectPending == vm.status = "running" /\ vm.gc_stage = "escalated"
\* the liveness of gc() is checked over the host's first calls
MaxFairRuns == 4
NextGcShort ==
  \/ run.n < MaxFairRuns /\ Run(GcPrograms)
  \/ Step
  \/ run.n < MaxFairRuns /\ \E op \in SeqToSet(GcOpOrder) : GcBegin(op)
  \/ GcEscalate
  \/ GcCollect
FairSpecGc ==
  /\ InitInstalled /\ [][NextGcShort]_vars
  /\ WF_vars(GcEscalate)
  /\ ([]<>~CollectPending \/ []<><<GcCollect>>_vars)

\* words with and without a built-in handler, executed again and again
CachePrograms == {"q_mk", "q_plain", "q_drop", "q_2c"}
NextCache == Run(CachePrograms) \/ Step
SpecCache == InitInstalled /\ [][NextCache]_vars

\* quotations with primitive calls and declarations among their elements
PrimitivePrograms == {"q_prim", "q_declare", "q_unknown", "q_drop"}
NextPrimitives == Run(PrimitivePrograms) \/ Step
SpecPrimitives == InitInstalled /\ [][NextPrimitives]_vars

\* the cleave combinator bi
BiPrograms == {"q_bi", "q_declare", "q_drop"}
NextBi == Run(BiPrograms) \/ Step
SpecBi == InitInstalled /\ [][NextBi]_vars

\* compaction of tenured spaces that hold, behind the image, a list of
\* Live arrays the data stack refers to
TenuredFree == tenured_size - ImageUnits
Filled(Live, tail) ==
  LET B == Boot(Q("q_handler"))
      first == tenured_start + ImageUnits
      last == first + Live - 1
  IN initial_free_list(
       [B EXCEPT !.mem = [a \in Addr |->
                            IF a >= first /\ a <= last
                            THEN MkArray(<< IF a = last THEN tail ELSE Ptr("array", a + 1) >>)
                            ELSE @[a]],
                 !.ds = IF Live = 0 THEN << >> ELSE << Ptr("array", first) >>],
       ImageUnits + Live)
InitCompact ==
  /\ \E Live \in 0 .. TenuredFree : \E tail \in {false_object, A("arr0")} :
       vm = Filled(Live, tail)
  /\ run = NoRun
NextCompact ==
  \/ run.n < MaxFairRuns /\ Run({"q_plain", "q_drop"})
  \/ Step
  \/ run.n < MaxFairRuns /\ GcBegin("COLLECT_COMPACT_OP")
  \/ GcEscalate
  \/ GcCollect
SpecCompact == InitCompact /\ [][NextCompact]_vars

\* the allocators of the three generations, asked for blocks of every size
MaxRequest == 3
GenStart(S, gen) ==
  CASE gen = "nursery" -> nursery_start [] gen = "aging" -> S.aging_start
    [] gen = "tenured" -> tenured_start
GenEnd(S, gen) ==
  CASE gen = "nursery" -> nursery_end [] gen = "aging" -> aging_end(S)
    [] gen = "tenured" -> tenured_end
\* the request fits: below end for a bump allocator, in a free block for tenured
Fits(S, gen, n) ==
  CASE gen = "nursery" -> S.nursery_here + n <= nursery_end
    [] gen = "aging" -> S.aging_here + n <= aging_end(S)
    [] gen = "tenured" -> largest_free_block(S) >= n
AllocatorState(S) ==
  << S.nursery_here, S.aging_here, S.small_blocks, S.large_blocks, S.free_block_count,
     S.free_space, S.mem >>
Allotted(gen, n, r) ==
  [r.S EXCEPT !.allotted = [at |-> TRUE, gen |-> gen, n |-> n, a |-> r.a,
                            fits |-> Fits(vm, gen, n),
                            same |-> AllocatorState(r.S) = AllocatorState(vm)]]

NurseryAllot(n) ==
  /\ Idle
  /\ run.n < MaxRuns
  /\ vm.nursery_here <= nursery_end
  /\ vm' = Allotted("nursery", n, nursery_allot(vm, n))
  /\ run' = Called

AgingAllot(n) ==
  /\ Idle
  /\ run.n < MaxRuns
  /\ vm' = Allotted("aging", n, aging_space_allot(vm, n))
  /\ run' = Called

TenuredAllot(n) ==
  /\ Idle
  /\ run.n < MaxRuns
  /\ vm' = Allotted("tenured", n, tenured_space_allot(vm, n))
  /\ run' = Called

NextAllot ==
  \/ \E n \in 1 .. MaxRequest : NurseryAllot(n)
  \/ \E n \in 1 .. MaxRequest : AgingAllot(n)
  \/ \E n \in 1 .. MaxRequest : TenuredAllot(n)
SpecAllot == InitInstalled /\ [][NextAllot]_vars

\* errors raised by primitives, by handlers and by signals
ErrPrograms == {"q_mod0", "q_badarray", "q_drop"}
NextErr ==
  \/ Run(ErrPrograms)
  \/ Step
  \/ GcBegin("COLLECT_NURSERY_OP")
  \/ GcEscalate
  \/ GcCollect
  \/ Signal
SpecErr == Init /\ [][NextErr]_vars

\* one built-in handler applied to one data stack
MaxOperands == 3
StackCells == {Fix(1), Fix(3), false_object, A("arr1"), Str("s_call"), T("B0")}
Stacks == UNION {[1 .. n -> StackCells] : n \in 0 .. MaxOperands}

\* cells a handler takes from the data stack
HandlerArity ==
  [ id \in SeqToSet(HandlerIds) |->
      CASE id \in {"HANDLER_PROBE", "HANDLER_SET_NTH", "HANDLER_2CURRY", "HANDLER_BI",
                  "HANDLER_MEGA_CACHE_LOOKUP", "HANDLER_2DIP"} -> 3
        [] id \in {"HANDLER_NONE", "HANDLER_TUPLE_BOA"} -> 0
        [] id \in {"HANDLER_DROP", "HANDLER_STRING_HASHCODE", "HANDLER_DUP"} -> 1
        [] id = "HANDLER_3DIP" -> 4
        [] OTHER -> 2 ]

InitHandlers ==
  /\ \E st \in Stacks : vm = [Boot(Q("q_handler")) EXCEPT !.ds = st]
  /\ run = NoRun

Dispatch(id) ==
  /\ Idle
  /\ run.prog = "none"
  /\ Len(vm.ds) >= HandlerArity[id]
  /\ vm' = factor_vm("trampoline_dispatch_handler", << vm, id >>).S
  /\ run' = [prog |-> id, ds0 |-> vm.ds, n |-> 1,
             ret |-> factor_vm("trampoline_dispatch_handler", << vm, id >>).ret,
             active0 |-> vm.in_trampoline]

NextHandlers == \E id \in SeqToSet(HandlerIds) : Dispatch(id)
SpecHandlers == InitHandlers /\ [][NextHandlers]_vars

\* one arithmetic handler applied to every pair of fixnums
ArithIds ==
  {"HANDLER_FIXNUM_PLUS", "HANDLER_FIXNUM_MINUS", "HANDLER_FIXNUM_TIMES",
   "HANDLER_FIXNUM_DIVI", "HANDLER_FIXNUM_DIVMOD", "HANDLER_FIXNUM_SHIFT"}
Fixnums == fixnum_min .. fixnum_max
InitArith ==
  /\ \E x \in Fixnums : \E y \in Fixnums :
       vm = [Boot(Q("q_handler")) EXCEPT !.ds = << Fix(x), Fix(y) >>]
  /\ run = NoRun
NextArith == \E id \in ArithIds : Dispatch(id)
SpecArith == InitArith /\ [][NextArith]_vars

\* a generic word called with receivers of several classes
Receivers == {T("T0"), T("U0"), Str("s_T"), A("arr1"), W("w_m"), Fix(3)}
DispatchPrograms == {"q_gen", "q_gen1", "q_drop"}
InitDispatch ==
  /\ \E r1, r0 \in Receivers : vm = [Boot(Q("q_handler")) EXCEPT !.ds = << r1, r0 >>]
  /\ run = NoRun
NextDispatch == Run(DispatchPrograms) \/ Step
SpecDispatch == InitDispatch /\ [][NextDispatch]_vars

\* dup clone equal? on objects of every kind
Cloneables ==
  {A("arr1"), A("alist"), Str("s_T"), Str("s_U"), BA("b_array"), T("T0"), T("U0")}
InitEqual ==
  /\ \E a, b \in Cloneables : vm = [Boot(Q("q_handler")) EXCEPT !.ds = << a, b >>]
  /\ run = NoRun
\* dup clone
DupClone ==
  /\ Idle
  /\ run.prog = "none"
  /\ vm.ds # << >>
  /\ Len(vm.ds) <= MaxDepth
  /\ vm' = clone(push(vm, peek(vm)))
  /\ UNCHANGED run
NextEqual == DupClone \/ Dispatch("HANDLER_EQUAL")
SpecEqual == InitEqual /\ [][NextEqual]_vars

\* copying collections of heaps in which young objects refer to young
\* objects and the stack names an object twice
CopyPrograms == {"q_mk", "q_recurry", "q_dup", "q_drop"}
CopyOps == {"COLLECT_NURSERY_OP", "COLLECT_AGING_OP", "COLLECT_TO_TENURED_OP"}
NextCopy ==
  \/ Run(CopyPrograms)
  \/ Step
  \/ \E op \in CopyOps : GcBegin(op)
  \/ GcEscalate
  \/ GcCollect
SpecCopy == InitInstalled /\ [][NextCopy]_vars

\* nursery collections of heaps whose tenured objects were stored into
CardPrograms == {"q_mk", "q_setnth", "q_store", "q_drop"}
NextCards ==
  \/ Run(CardPrograms)
  \/ Step
  \/ GcBegin("COLLECT_NURSERY_OP")
  \/ GcEscalate
  \/ GcCollect
SpecCards == InitInstalled /\ [][NextCards]_vars

\* quotations whose words enqueue quotations, restores and error handlers
OrderPrograms == {"q_mkdip", "q_bi", "q_mod0", "q_drop"}
NextOrder == Run(OrderPrograms) \/ Step
SpecOrder == InitInstalled /\ [][NextOrder]_vars

\* the host executes words with a handler, with a subprimitive, with a
\* definition only
ExecutedWords == {"w_sub", "w_m", "w_dup", "w_drop", "w_plus", "w_2curry"}
InterpretWord(n) ==
  /\ Idle
  /\ run.n < MaxRuns
  /\ Len(vm.ds) <= MaxDepth
  /\ vm' = factor_vm("interpret_word",
                     << [vm EXCEPT !.prims = << >>, !.execs = << >>, !.trace = << >>,
                                   !.chosen = << >>, !.literals = << >>, !.calls = << >>],
                        W(n) >>)
  /\ run' = [prog |-> n, ds0 |-> Views(vm, vm.ds), n |-> run.n + 1, ret |-> TRUE,
             active0 |-> vm.in_trampoline]
NextWords == (\E n \in ExecutedWords : InterpretWord(n)) \/ Step
SpecWords == InitInstalled /\ [][NextWords]_vars

\* the host runs quotations whose elements are literals of several types,
\* wrappers, words, primitive calls and declarations
LiteralPrograms == {"q_dll", "q_props", "q_prim", "q_declare", "q_mod0", "q_mk", "q_drop"}
NextLiterals == Run(LiteralPrograms) \/ Step
SpecLiterals == InitInstalled /\ [][NextLiterals]_vars

\* the host executes a word on a stack it has prepared
CallWord(n) ==
  /\ Idle
  /\ run.prog = "none"
  /\ vm' = factor_vm("interpret_word",
                     << [vm EXCEPT !.prims = << >>, !.execs = << >>, !.trace = << >>,
                                   !.chosen = << >>, !.literals = << >>, !.calls = << >>],
                        W(n) >>)
  /\ run' = [prog |-> n, ds0 |-> vm.ds, n |-> 1, ret |-> TRUE, active0 |-> vm.in_trampoline]

\* the host's second call
CallWord2(n) ==
  /\ vm' = factor_vm("interpret_word",
                     << [vm EXCEPT !.prims = << >>, !.execs = << >>, !.trace = << >>,
                                   !.chosen = << >>, !.literals = << >>, !.calls = << >>],
                        W(n) >>)
  /\ run' = [prog |-> n, ds0 |-> vm.ds, n |-> 2, ret |-> TRUE, active0 |-> vm.in_trampoline]

\* dip, 2dip and 3dip on stacks of up to four values with a quotation on top
MaxSaved == 4
DipCount == [w_dip |-> 1, w_2dip |-> 2, w_3dip |-> 3]
DipQuotations == {Q("q_handler"), Q("q_drop"), Q("q_nop")}
DipStacks ==
  {st \o << q >> : st \in UNION {[1 .. n -> {Fix(1), Fix(2)}] : n \in 1 .. MaxSaved},
                   q \in DipQuotations}
InitDip ==
  /\ \E st \in DipStacks : vm = [Boot(Q("q_handler")) EXCEPT !.ds = st]
  /\ run = NoRun
NextDip ==
  \/ \E n \in DOMAIN DipCount : Len(vm.ds) > DipCount[n] /\ CallWord(n)
  \/ Step
SpecDip == InitDip /\ [][NextDip]_vars

\* loop over bodies that take their flag from the stack or push f
MaxFlags == 4
LoopBodies == {Q("q_nop"), Q("q_drop"), Q("q_f")}
LoopStacks ==
  {st \o << q >> :
     st \in UNION {[1 .. n -> {false_object, Fix(0), Fix(1)}] : n \in 0 .. MaxFlags},
     q \in LoopBodies}
InitLoop ==
  /\ \E st \in LoopStacks : vm = [Boot(Q("q_handler")) EXCEPT !.ds = st]
  /\ run = NoRun
NextLoop == CallWord("w_loop") \/ Step
SpecLoop == InitLoop /\ [][NextLoop]_vars
\* the trampoline's loop goes on while work is waiting
StepPending == vm.status = "running" /\ vm.current_gc = "none" /\ vm.tramp # << >>
FairSpecLoop == SpecLoop /\ ([]<>~StepPending \/ []<><<Step>>_vars)

\* call on tuples of the composed class, of the curried class, of others
CalledTuples == {T("K0"), T("C0"), T("C1"), T("B0"), T("T0")}
TupleStacks ==
  {st \o << t >> : st \in UNION {[1 .. n -> {Fix(1), Fix(2)}] : n \in 0 .. 2},
                   t \in CalledTuples}
InitTuples ==
  /\ \E st \in TupleStacks : vm = [Boot(Q("q_handler")) EXCEPT !.ds = st]
  /\ run = NoRun
NextTuples == CallWord("w_call") \/ Step
SpecTuples == InitTuples /\ [][NextTuples]_vars

\* recover and call on the same quotations
TryQuotations == {Q("q_try"), Q("q_handler"), Q("q_dup"), Q("q_p"), Q("q_nop")}
RecoverStacks ==
  {st \o << q, Q("q_nop") >> :
     st \in UNION {[1 .. n -> {Fix(1), Fix(2)}] : n \in 0 .. 2}, q \in TryQuotations}
InitRecover ==
  /\ \E st \in RecoverStacks : vm = [Boot(Q("q_handler")) EXCEPT !.ds = st]
  /\ run = NoRun
NextRecover ==
  \/ CallWord("w_recover")
  \/ CallWord("w_drop")
  \/ run.prog = "w_drop" /\ run.n = 1 /\ Idle /\ CallWord2("w_call")
  \/ Step
SpecRecover == InitRecover /\ [][NextRecover]_vars

\* the stack words, executed by each of the three dispatchers
Dispatchers == {"trampoline_dispatch_handler", "dispatch_by_handler_id", "dispatch_subprimitive"}
ShuffleIds == [dup |-> "HANDLER_DUP", drop |-> "HANDLER_DROP", over |-> "HANDLER_OVER",
               2over |-> "HANDLER_2OVER"]
ByDispatcher(S, by, name) ==
  CASE by = "trampoline_dispatch_handler" ->
         factor_vm("trampoline_dispatch_handler", << S, ShuffleIds[name] >>)
    [] by = "dispatch_by_handler_id" ->
         factor_vm("dispatch_by_handler_id", << S, ShuffleIds[name] >>)
    [] by = "dispatch_subprimitive" -> factor_vm("dispatch_subprimitive", << S, name >>)
ShuffleStacks == [1 .. 4 -> {Fix(1), Fix(2), Fix(3)}]
InitShuffle ==
  /\ \E st \in ShuffleStacks : vm = [Boot(Q("q_handler")) EXCEPT !.ds = st]
  /\ run = NoRun
Shuffle(by, name) ==
  /\ Idle
  /\ run.prog = "none"
  /\ vm' = ByDispatcher(vm, by, name).S
  /\ run' = [prog |-> name, ds0 |-> vm.ds, n |-> 1, ret |-> ByDispatcher(vm, by, name).ret,
             active0 |-> vm.in_trampoline]
NextShuffle == \E by \in Dispatchers : \E name \in DOMAIN ShuffleIds : Shuffle(by, name)
SpecShuffle == InitShuffle /\ [][NextShuffle]_vars

\* collections asked for by the host after stores into tenured objects
PromotePrograms == {"q_mk", "q_setnth", "q_drop"}
PromoteOps == SeqToSet(GcOpOrder)
NextPromote ==
  \/ run.n < MaxFairRuns /\ Run(PromotePrograms)
  \/ Step
  \/ run.n < MaxFairRuns /\ \E op \in PromoteOps : GcBegin(op)
  \/ GcEscalate
  \/ GcCollect
SpecPromote == InitInstalled /\ [][NextPromote]_vars

\* collections after code blocks were written to
CodeBlocks == {"cb1", "cb2"}
CodeWriteBarrier(compiled) ==
  /\ Idle
  /\ run.n < MaxFairRuns
  /\ compiled \notin vm.points_to_nursery
  /\ vm' = code_write_barrier(vm, compiled)
  /\ run' = Called
NextRemember ==
  \/ run.n < MaxFairRuns /\ Run(GcPrograms)
  \/ Step
  \/ run.n < MaxFairRuns /\ \E op \in SeqToSet(GcOpOrder) : GcBegin(op)
  \/ GcEscalate
  \/ GcCollect
  \/ \E compiled \in CodeBlocks : CodeWriteBarrier(compiled)
SpecRemember == InitInstalled /\ [][NextRemember]_vars

\* allot, free, sweep and compact on a free-list allocator
MaxAllot == 8
AllottedBlocks(R) == {a \in RegionAddr : R.heap[a].size > 0 /\ ~R.heap[a].free}
FitExists(R, size) == \E i \in DOMAIN Listed(R) : R.heap[Listed(R)[i]].size >= size
RegionAllot(size) ==
  /\ Idle
  /\ LET r == region_allot(vm.region, size)
         aligned == align(size, RegionAlignment)
         done == IF r.a = 0 THEN r.R ELSE [r.R EXCEPT !.heap[r.a].free = FALSE]
     IN vm' = [vm EXCEPT !.region =
                 [done EXCEPT !.allotted = [at |-> TRUE, size |-> aligned, a |-> r.a,
                                            existed |-> FitExists(vm.region, aligned)]]]
  /\ UNCHANGED run
RegionFree(a) ==
  /\ Idle
  /\ a \in AllottedBlocks(vm.region)
  /\ vm' = [vm EXCEPT !.region = [region_free(@, a) EXCEPT !.allotted = NoRegionAllot]]
  /\ UNCHANGED run
RegionSweep(marked) ==
  /\ Idle
  /\ vm' = [vm EXCEPT !.region = [region_sweep(@, marked) EXCEPT !.allotted = NoRegionAllot]]
  /\ UNCHANGED run
RegionCompact(marked) ==
  /\ Idle
  /\ vm' = [vm EXCEPT !.region = [region_compact(@, marked) EXCEPT !.allotted = NoRegionAllot]]
  /\ UNCHANGED run
NextRegion ==
  \/ \E size \in 1 .. MaxAllot : RegionAllot(size)
  \/ \E a \in RegionAddr : RegionFree(a)
  \/ \E marked \in SUBSET AllottedBlocks(vm.region) : RegionSweep(marked)
  \/ \E marked \in SUBSET AllottedBlocks(vm.region) : RegionCompact(marked)
SpecRegion == InitInstalled /\ [][NextRegion]_vars

(* ------------------------------ properties ----------------------------- *)
Quiescent == vm.status = "running" /\ vm.current_gc = "none"

HeapCell(c) == ~immediate_p(c) /\ c.tag # "handler"

IsPrefix(s, t) == Len(s) <= Len(t) /\ s = SubSeq(t, 1, Len(s))

\* C1: between interpreter steps, every heap cell held by a pending work
\* item of the trampoline refers to a live object: a collection that ran
\* while the item was pending has scanned the cell as a root, so it never
\* names evacuated or reclaimed memory.
C1_PendingCellsLive ==
  Quiescent =>
    \A i \in DOMAIN vm.tramp : \A k \in DOMAIN vm.tramp[i].cells :
      HeapCell(vm.tramp[i].cells[k]) => valid_pointer(vm, vm.tramp[i].cells[k])

\* the cells the VM's roots hold
RootCells(S) ==
  SeqToSet(S.ds) \cup SeqToSet(S.rs) \cup SeqToSet(S.data_roots)
    \cup SeqToSet(S.special_objects)

\* the cells of the object a heap cell names, if there is an object there
CellsOf(S, c) ==
  IF HeapCell(c) /\ c.v \in Addr /\ S.mem[c.v].h = "obj"
  THEN {S.mem[c.v].slots[i] : i \in {j \in DOMAIN S.mem[c.v].slots : j <= slot_count(S, c.v)}}
  ELSE {}

RECURSIVE Closure(_, _)
Closure(S, cs) ==
  LET more == cs \cup UNION {CellsOf(S, c) : c \in cs} IN
  IF more = cs THEN cs ELSE Closure(S, more)

ReachableCells(S) == Closure(S, RootCells(S))

\* the generation ranges that hold the address
GenerationsOf(S, a) ==
  {g \in {"nursery", "aging", "tenured"} :
     \/ g = "nursery" /\ nursery_contains_p(a)
     \/ g = "aging" /\ aging_contains_p(S, a)
     \/ g = "tenured" /\ tenured_contains_p(a)}

\* C2: when no collection is in progress, every cell reachable from the
\* roots is immediate or points into exactly one of nursery, live aging
\* semispace and tenured space, and never into the emptied part of the
\* nursery or into the old aging semispace.
C2_ReachableInOneGeneration ==
  Quiescent =>
    \A c \in ReachableCells(vm) :
      HeapCell(c) =>
        /\ Cardinality(GenerationsOf(vm, c.v)) = 1
        /\ ~semispace_contains_p(vm, c.v)
        /\ nursery_contains_p(c.v) => nursery_contains_allocated_p(vm, c.v)

\* the remembered-set bit a pointer from the object at a to the object at b needs
YoungerBits(S, a, b) ==
  IF nursery_contains_p(b) /\ (tenured_contains_p(a) \/ aging_contains_p(S, a))
    THEN card_points_to_nursery
  ELSE IF aging_contains_p(S, b) /\ tenured_contains_p(a) THEN card_points_to_aging
  ELSE {}

\* objects of the two older generations
OlderObjects(S) ==
  {a \in Addr : S.mem[a].h = "obj"
                 /\ (tenured_contains_p(a) \/ aging_contains_allocated_p(S, a))}

\* C3: at every quiescent point, every slot of an aging or tenured object
\* that points to an object of a younger generation lies in a card whose
\* points-to-younger bit is set and in a deck whose summary bit is set.
C3_OlderToYoungerRemembered ==
  Quiescent =>
    \A a \in OlderObjects(vm) : \A c \in CellsOf(vm, Ptr("object", a)) :
      (HeapCell(c) /\ valid_pointer(vm, c)) =>
        /\ YoungerBits(vm, a, c.v) \subseteq vm.cards[a]
        /\ YoungerBits(vm, a, c.v) \subseteq vm.decks[DeckOf(a)]

\* C5: a built-in handler that reports "not applicable" leaves the data
\* stack, depth and contents, exactly as it was when the handler was invoked.
C5_NotApplicableKeepsStack ==
  (run.prog \in SeqToSet(HandlerIds) /\ ~run.ret) => vm.ds = run.ds0

Ranks(ops) == [i \in DOMAIN ops |-> GcRank(ops[i])]
NonDecreasing(r) == \A i, j \in DOMAIN r : i < j => r[i] <= r[j]
Increasing(r) == \A i, j \in DOMAIN r : i < j => r[i] < r[j]

\* C4 as stated: during one call of gc() the current op only moves upward
\* in the order nursery, aging, to-tenured, full, compact, grow-heap.
C4_OpOnlyMovesUp == NonDecreasing(Ranks(vm.gc_ops))

\* the one step down: collect_aging labels its first phase to-tenured and
\* then returns to aging
AgingPhaseStep(ops, i) ==
  /\ i > 1
  /\ i < Len(ops)
  /\ ops[i - 1] = "COLLECT_AGING_OP"
  /\ ops[i] = "COLLECT_TO_TENURED_OP"
  /\ ops[i + 1] = "COLLECT_AGING_OP"

C4_Safe ==
  /\ \A i \in 1 .. (Len(vm.gc_ops) - 1) :
        GcRank(vm.gc_ops[i]) <= GcRank(vm.gc_ops[i + 1]) \/ AgingPhaseStep(vm.gc_ops, i)
  /\ Increasing(Ranks(vm.gc_runs))
  /\ Len(vm.gc_runs) <= 2
  /\ (vm.status = "fatal" /\ vm.gc_stage # "idle") => vm.current_gc # "none"

InGc == vm.status = "running" /\ vm.gc_stage # "idle"
GcOver == vm.status # "running" \/ vm.gc_stage = "idle"

\* C4, amended: every call of gc() ends, by returning or by a fatal error;
\* the collection routines it runs (at most two) are run in increasing
\* order, none after grow-heap, and the op label only moves upward except
\* that collect_aging sets it to to-tenured for its first phase and back to
\* aging for its second.
C4_TerminatesMovingUp == [](C4_Safe) /\ (InGc ~> GcOver)

\* a call of gc() that escalated from a nursery to an aging collection
\* has returned
C4_Witness ==
  /\ vm.status = "running"
  /\ vm.gc_stage = "idle"
  /\ Len(vm.gc_ops) >= 4
  /\ vm.gc_ops[1] = "COLLECT_NURSERY_OP"

\* C6: when the program that pushes q, curries it with the value x on top of
\* the stack and calls the result has finished, the data stack is what
\* pushing x and calling q leaves: the stack of the start, x on top, with
\* the literals of q pushed on it.
C6_CurryCallAsPushCall ==
  (Idle /\ run.prog = "q_cc") =>
    Views(vm, vm.ds) = run.ds0 \o Views(vm, QuotBodies["q_handler"])

\* C7: no handler stores into a tuple it has just allocated a pointer that it
\* loaded into a host local before the allocation and that no longer names
\* a live object.
C7_NoStaleLocalStored == ~vm.stale_store

\* C8: after an error is raised with the handler installed and no collection
\* in progress, nothing runs before the handler quotation begins: no further
\* element of the faulting quotation and no work item that was pending.
C8_HandlerRunsNext == ~vm.err_overrun

\* the next iteration of the trampoline starts the error handler's quotation
HandlerStarts ==
  /\ vm.status = "running"
  /\ vm.err_pending
  /\ vm.tramp # << >>
  /\ handler_item_p(vm, Last(vm.tramp))

\* the cell names a 4-element array (kernel-error tag, error kind, arg1, arg2)
ErrorArray(S, c) ==
  /\ c.tag = "array"
  /\ valid_pointer(S, c)
  /\ array_capacity(S, c) = 4
  /\ slot_of(S, c.v, 1) = KERNEL_ERROR
  /\ \E kind \in SeqToSet(ErrorKinds) : slot_of(S, c.v, 2) = ErrorCell(kind)

\* C9: at the moment the error handler's quotation starts, the top of the
\* data stack is the 4-element error array, the data-root stack is empty
\* and the faulting flag is false.
C9_HandlerStartState ==
  HandlerStarts =>
    /\ vm.ds # << >>
    /\ ErrorArray(vm, Last(vm.ds))
    /\ vm.data_roots = << >>
    /\ ~vm.faulting_p

\* the last error was raised inside a collection or with no handler installed
FatalRaise ==
  /\ vm.raised.at
  /\ (vm.raised.gc # "none" \/ ~to_boolean(vm.raised.handler))

\* C10: after an error raised while a collection is in progress or before
\* the error handler is installed, the VM has aborted: the handler was not
\* queued, the data stack holds no error array (it is as it was at the
\* raise) and the interpreter takes no further step.
C10_FatalRaiseAborts ==
  FatalRaise =>
    /\ vm.status = "aborted"
    /\ ~vm.err_pending
    /\ vm.ds = vm.raised.ds
    /\ vm.tramp = vm.raised.tramp
    /\ ~ENABLED Step

\* an error raised by a signal inside a collection has aborted the VM
C10_Witness ==
  /\ vm.raised.at
  /\ vm.raised.gc # "none"
  /\ vm.status = "aborted"

\* C11: at most one loop of run_trampoline is ever active: an
\* interpret_quotation called while the active flag is set queues its work
\* and returns without entering a second loop, and once the outermost entry
\* has returned the flag has the value it had before that entry.
C11_OneTrampolineLoop ==
  /\ vm.loops <= 1
  /\ Len(vm.guards) = vm.loops
  /\ vm.loops = 0 => vm.in_trampoline = run.active0

\* an error was raised inside the running loop, its handler was queued by
\* the nested interpret_quotation, and the outermost entry has returned
C11_Witness ==
  /\ Idle
  /\ run.prog = "q_mod0"
  /\ vm.raised.at /\ vm.raised.active
  /\ vm.loops = 0

\* the words the roots reach
ReachableWords(S) == {c \in ReachableCells(S) : c.tag = "word" /\ valid_pointer(S, c)}

WordName(S, w) == ObjAt(S, slot_of(S, w.v, 1).v).data

\* C12: after any sequence of word executions, the handler id cached on a
\* word is Uncached, or None while the word's name is absent from the
\* handler table, or the id the table associates with the word's own name.
C12_CachedIdIsTableId ==
  Quiescent =>
    \A w \in ReachableWords(vm) :
      LET id == get_cached_handler_id(vm, w) IN
      \/ id = "HANDLER_UNCACHED"
      \/ id = "HANDLER_NONE" /\ WordName(vm, w) \notin DOMAIN HandlerTable
      \/ WordName(vm, w) \in DOMAIN HandlerTable /\ id = HandlerTable[WordName(vm, w)]

\* a word with no handler and a word with one have both been executed
C12_Witness ==
  /\ Idle
  /\ get_cached_handler_id(vm, W("w_declare")) = "HANDLER_NONE"
  /\ get_cached_handler_id(vm, W("w_call")) = "HANDLER_CALL"

\* the j-th element of the i-th quotation of the startup array
ProgramCell(S, i, j) ==
  slot_of(S, quot_array(S, slot_of(S, SO(S, "OBJ_GLOBAL").v, i)).v, j)

\* where the quotations of the startup array name a word
ProgramWords ==
  {p \in (DOMAIN Programs) \X (1 .. 6) :
     p[2] <= Len(QuotBodies[Programs[p[1]]]) /\ QuotBodies[Programs[p[1]]][p[2]].tag = "word"}

CachedIds(S) == [p \in ProgramWords |-> get_cached_handler_id(S, ProgramCell(S, p[1], p[2]))]

\* C13: a collection leaves the handler id cached on every word as it was,
\* whatever the id and whatever the collection, the id being read after
\* the collection at the address the word then has.
C13_CachedIdSurvivesGc ==
  [][(vm.gc_stage # "idle" \/ vm'.gc_stage # "idle") /\ vm'.status = "running"
       => CachedIds(vm') = CachedIds(vm)]_vars

\* a compaction has moved a word that carries a cached handler id
C13_Witness ==
  /\ Idle
  /\ ProgramCell(vm, 1, 2).tag = "word"
  /\ ProgramCell(vm, 1, 2).v # Adr("w_call")
  /\ get_cached_handler_id(vm, ProgramCell(vm, 1, 2)) = "HANDLER_CALL"

\* C14: when gc() has completed a collection, every tuple-layout cache
\* (curried, composed, box, global-box, hashtable, tombstone, slice, vector,
\* reversed, wrapped-sequence) is empty before the mutator runs again.
C14_CachesEmptyAfterGc ==
  [][vm.current_gc # "none" /\ vm'.current_gc = "none" /\ vm'.status = "running"
       => \A n \in LayoutCaches : vm'.g_layout[n] = Fix(0)]_vars

\* gc() called by the host has returned after call had cached the layout of
\* the curried tuple it was given
C14_Witness ==
  /\ Idle
  /\ run.prog = "none" /\ run.n > 0
  /\ vm.gc_runs # << >>
  /\ get_cached_handler_id(vm, ProgramCell(vm, 1, 2)) = "HANDLER_CALL"
  /\ \A n \in LayoutCaches : vm.g_layout[n] = Fix(0)

\* the blocks on the free list, small lists first
FreeBlocks(S) ==
  LET RECURSIVE upto(_)
      upto(i) == IF i < 0 THEN << >> ELSE upto(i - 1) \o S.small_blocks[i]
  IN upto(free_list_count - 1) \o S.large_blocks

\* tenured space is the marked blocks, packed at its low end, and then free
PackedLow(S) ==
  /\ tenured_size - S.free_space = S.compacted.marked_size
  /\ \A a \in tenured_start .. (tenured_start + S.compacted.marked_size - 1) :
        S.mem[a].h = "obj"

TailBlock(S) ==
  LET tail == tenured_start + S.compacted.marked_size IN
  /\ FreeBlocks(S) = << tail >>
  /\ S.free_block_count = 1
  /\ S.mem[tail].h = "free"
  /\ S.mem[tail].size = tenured_end - tail

\* C15 as stated: after a compaction of tenured space the free list holds
\* exactly one block, directly behind the last live object and reaching to
\* the end of the space, and the occupied size is the sum of the marked sizes.
C15_OneTailBlock ==
  [][vm.gc_stage = "escalated" /\ vm'.compacted.at
       => PackedLow(vm') /\ TailBlock(vm')]_vars

\* C15 amended: as above, except that the free list is empty when the
\* marked blocks fill tenured space to its end.
C15_TailBlockUnlessFull ==
  [][vm.gc_stage = "escalated" /\ vm'.compacted.at
       => /\ PackedLow(vm')
          /\ IF vm'.compacted.marked_size = tenured_size
             THEN FreeBlocks(vm') = << >> /\ vm'.free_block_count = 0
             ELSE TailBlock(vm')]_vars

\* a compaction found every block of tenured space marked
C15_Witness ==
  /\ vm.compacted.at
  /\ vm.compacted.marked_size = tenured_size
  /\ vm.free_block_count = 0

\* C16: allot of each generation's allocator, for every request size,
\* either returns null and leaves the allocator as it was, or returns a
\* block that lies wholly inside [start, end); it returns null whenever the
\* request does not fit.
C16_AllotNullOrInside ==
  vm.allotted.at =>
    LET r == vm.allotted IN
    /\ \/ r.a = 0 /\ r.same
       \/ r.a # 0 /\ r.a >= GenStart(vm, r.gen) /\ r.a + r.n <= GenEnd(vm, r.gen)
    /\ ~r.fits => r.a = 0

\* C17: whenever a data-root anchor is released it is the top entry of the
\* anchor stack, so anchors are released in exact reverse order of their
\* registration, also in executions in which an error is raised while
\* anchors are registered.
C17_AnchorsReleasedLifo == ~vm.root_misrelease

\* C18: in a quotation, a byte array followed by the primitive-call word
\* invokes the named primitive exactly once and execution goes on two
\* elements later, neither element having been pushed; an array followed by
\* the declare word is skipped and leaves the data stack as it was.
ArrayOfF == [tag |-> "array", slots |-> << false_object >>]
C18_PairsConsumed ==
  Idle =>
    /\ run.prog = "q_prim" =>
         /\ vm.prims = << "primitive_array" >>
         /\ Views(vm, vm.ds) = run.ds0 \o << ArrayOfF, Fix(8) >>
    /\ run.prog = "q_declare" =>
         /\ vm.prims = << >>
         /\ Views(vm, vm.ds) = run.ds0 \o << Fix(5), Fix(8) >>

\* a primitive call has run on the stack a declaration had left alone
C18_Witness ==
  /\ Idle
  /\ run.prog = "q_prim"
  /\ run.ds0 = << Fix(5), Fix(8) >>
  /\ vm.prims = << "primitive_array" >>
  /\ Len(vm.ds) = 4

\* C19: a byte array before the primitive-call word that names no known
\* primitive ends the VM with a fatal error: the pair is not skipped and no
\* later element of the quotation is executed.
C19_UnknownPrimitiveFatal ==
  run.prog = "q_unknown" =>
    \/ /\ vm.status = "running"
       /\ vm.tramp # << >>
       /\ Views(vm, vm.ds) = run.ds0
    \/ /\ vm.status = "fatal"
       /\ vm.fatal_msg = "Unknown primitive in wasm interpreter"
       /\ vm.prims = << >>
       /\ Views(vm, vm.ds) = run.ds0 \o << Fix(5) >>

C19_Witness ==
  /\ run.prog = "q_unknown"
  /\ vm.status = "fatal"
  /\ run.ds0 # << >>
  /\ Last(vm.ds) = Fix(5)

\* C20: bi with ( x p q ) on the data stack applies p to x and then q to x
\* on top of what p left: x = 3, p = [ 1 + ], q = [ 2 * ] leave 6 on top
\* and 4 below it.
C20_BiAppliesBoth ==
  Idle /\ run.prog = "q_bi" => Views(vm, vm.ds) = run.ds0 \o << Fix(4), Fix(6) >>

C20_Witness ==
  /\ Idle
  /\ run.prog = "q_bi"
  /\ run.ds0 # << >>
  /\ Last(vm.ds) = Fix(6)
  /\ get_cached_handler_id(vm, W("w_bi")) = "HANDLER_BI"
  /\ get_cached_handler_id(vm, W("w_plus")) = "HANDLER_NONE"

\* the cell c is the number r: a fixnum when r is in the fixnum range, else
\* a bignum holding r
Exact(S, c, r) ==
  IF r >= fixnum_min /\ r <= fixnum_max THEN c = Fix(r)
  ELSE /\ c.tag = "bignum"
       /\ ObjAt(S, c.v).h = "obj"
       /\ ObjAt(S, c.v).type = "bignum"
       /\ ObjAt(S, c.v).data = r
Operand(i) == run.ds0[i].v

\* C21: for all fixnums x and y the handlers of fixnum+, fixnum- and fixnum*
\* push the exact sum, difference and product: a fixnum when it is in
\* [fixnum_min, fixnum_max], else a bignum with that value.
C21_PlusMinusTimesExact ==
  run.prog \in {"HANDLER_FIXNUM_PLUS", "HANDLER_FIXNUM_MINUS", "HANDLER_FIXNUM_TIMES"} =>
    /\ vm.status = "running"
    /\ Len(vm.ds) = 1
    /\ Exact(vm, vm.ds[1],
             CASE run.prog = "HANDLER_FIXNUM_PLUS" -> Operand(1) + Operand(2)
               [] run.prog = "HANDLER_FIXNUM_MINUS" -> Operand(1) - Operand(2)
               [] run.prog = "HANDLER_FIXNUM_TIMES" -> Operand(1) * Operand(2))

\* fixnum_max 1 fixnum+ has left a bignum
C21_Witness ==
  /\ run.prog = "HANDLER_FIXNUM_PLUS"
  /\ run.ds0 = << Fix(fixnum_max), Fix(1) >>
  /\ vm.ds[1].tag = "bignum"
  /\ bignum_value(vm, vm.ds[1]) = fixnum_max + 1

\* the shift of x by y bits: to the left for y >= 0, else to the right
Shifted(x, y) == IF y >= 0 THEN x * 2 ^ y ELSE x \div 2 ^ (0 - y)

\* C22: for all fixnums x and y, y not zero for the divisions, the handlers
\* of /i, /mod and shift push the exact quotient, quotient and remainder, and
\* shifted value, as a bignum when it does not fit in a fixnum.
C22_DivideShiftExact ==
  /\ run.prog = "HANDLER_FIXNUM_DIVI" /\ Operand(2) # 0 =>
       Len(vm.ds) = 1 /\ Exact(vm, vm.ds[1], c_div(Operand(1), Operand(2)))
  /\ run.prog = "HANDLER_FIXNUM_DIVMOD" /\ Operand(2) # 0 =>
       /\ Len(vm.ds) = 2
       /\ Exact(vm, vm.ds[1], c_div(Operand(1), Operand(2)))
       /\ Exact(vm, vm.ds[2], c_rem(Operand(1), Operand(2)))
  /\ run.prog = "HANDLER_FIXNUM_SHIFT" =>
       Len(vm.ds) = 1 /\ Exact(vm, vm.ds[1], Shifted(Operand(1), Operand(2)))

\* the receiver of the generic call of the run: the cell at the index the
\* program gives, counted from the top of the stack
Receiver ==
  IF run.prog = "q_gen" THEN run.ds0[Len(run.ds0)] ELSE run.ds0[Len(run.ds0) - 1]
IsGenericCall == run.prog \in {"q_gen", "q_gen1"}
\* receivers the methods table has the method m for, and their classes
HasMethod == Receiver \in {View(vm, T("T0")), View(vm, A("arr1"))}
ReceiverClass == IF Receiver.tag = "tuple" THEN A("l_T") ELSE Fix(TagNumber[Receiver.tag])
\* the pair of the cache at the slot the class hashes to
CachePair(klass) ==
  LET cells == ObjAt(vm, Adr("cache")).slots
      h == (klass.v % (Len(cells) \div 2)) * 2
  IN << cells[h + 1], cells[h + 2] >>

\* the stack is the one of the call with the cells pushed on top; a word
\* below shows the handler its execution caches in it
StackKept(pushed) ==
  /\ Len(vm.ds) = Len(run.ds0) + Len(pushed)
  /\ \A i \in DOMAIN run.ds0 :
       IF run.ds0[i].tag = "word" THEN View(vm, vm.ds[i]).tag = "word"
       ELSE View(vm, vm.ds[i]) = run.ds0[i]
  /\ \A i \in DOMAIN pushed : View(vm, vm.ds[Len(run.ds0) + i]) = pushed[i]

\* C23: mega-cache-lookup with (methods, index, cache) on the stack looks up
\* the method for the receiver at the given stack index, executes that
\* method exactly once, and leaves the pair (class of the receiver, method)
\* in the cache at the slot the hash of the class selects.
C23_MegaCacheLookup ==
  (Idle /\ IsGenericCall /\ HasMethod) =>
     /\ vm.execs = << "mega-cache-lookup", "m" >>
     /\ StackKept(<< Fix(0 - 1) >>)
     /\ CachePair(ReceiverClass) = << ReceiverClass, W("w_m") >>
C23_Witness ==
  /\ Idle
  /\ run.prog = "q_gen1"
  /\ Receiver = View(vm, T("T0"))
  /\ run.ds0[Len(run.ds0)] = View(vm, T("U0"))
  /\ vm.execs = << "mega-cache-lookup", "m" >>
  /\ CachePair(A("l_T")) = << A("l_T"), W("w_m") >>

\* C24: whenever the lookup finds no method for the receiver, the callable
\* that gets executed is the no-method word of slot 0 of the methods table,
\* for tuple and non-tuple receivers alike.
C24_NoMethodExecuted ==
  (IsGenericCall /\ ~HasMethod /\ Receiver.tag # "word" /\ vm.tramp = << >>) =>
     vm.execs = << "mega-cache-lookup", "no-method" >>

\* the operands of equal? are an object and a copy of it made by clone
ComparedCloneTo(tag) ==
  LET n == Len(run.ds0) IN
  /\ run.prog = "HANDLER_EQUAL"
  /\ run.ds0[n].tag = tag
  /\ run.ds0[n - 1].tag = tag
  /\ run.ds0[n].v # run.ds0[n - 1].v
  /\ run.ds0[n].v >= nursery_start
  /\ ObjAt(vm, run.ds0[n].v).slots = ObjAt(vm, run.ds0[n - 1].v).slots
  /\ ObjAt(vm, run.ds0[n].v).data = ObjAt(vm, run.ds0[n - 1].v).data

\* C25: equal?(clone(x), x) is true for arrays, strings, byte arrays and
\* tuples built of the same.
C25_CloneEqual ==
  \A tag \in {"array", "string", "byte_array", "tuple"} :
    ComparedCloneTo(tag) => peek(vm) = SO(vm, "OBJ_CANONICAL_TRUE")

\* the collections that scan the objects they copied with Cheney's loop
CheneyOps == {"COLLECT_NURSERY_OP", "COLLECT_AGING_OP"}
TimesScanned(a) == Cardinality({k \in DOMAIN vm.scans : vm.scans[k] = a})

\* C26: in a copying collection an object is copied once: no object is
\* forwarded twice and no two objects share a copy, a reference to an object
\* that was forwarded before is given the address of that one copy, and
\* every copy made by a nursery or aging collection is scanned exactly once
\* by Cheney's loop, which scans no object twice.
C26_CopiedAndScannedOnce ==
  Quiescent =>
    /\ \A i, j \in DOMAIN vm.copies :
         i # j => vm.copies[i][1] # vm.copies[j][1] /\ vm.copies[i][2] # vm.copies[j][2]
    /\ \A k \in DOMAIN vm.fixups :
         \E i \in DOMAIN vm.copies :
           vm.copies[i][1] = vm.fixups[k][1] /\ vm.copies[i][2] = vm.fixups[k][2]
    /\ \A i \in DOMAIN vm.copies :
         vm.copies[i][3] \in CheneyOps => TimesScanned(vm.copies[i][2]) = 1
    /\ \A k \in DOMAIN vm.scans : TimesScanned(vm.scans[k]) = 1
\* a young object and the young object it refers to were both copied, the
\* second one found through the scan of the first
C26_Witness ==
  /\ Quiescent
  /\ vm.gc_stage = "idle"
  /\ Len(vm.copies) >= 2
  /\ Len(vm.scans) >= 2
  /\ vm.fixups # << >>
  /\ \E i, j \in DOMAIN vm.copies :
       /\ i < j
       /\ vm.copies[j][3] \in CheneyOps
       /\ \E s \in DOMAIN ObjAt(vm, vm.copies[i][2]).slots :
            ObjAt(vm, vm.copies[i][2]).slots[s].v = vm.copies[j][2]

\* the host's call of gc() has returned from a nursery collection and the
\* interpreter has not run since
AfterNurseryCollection ==
  /\ Quiescent
  /\ run.prog = "none"
  /\ vm.gc_stage = "idle"
  /\ vm.gc_runs = << "COLLECT_NURSERY_OP" >>
CopyOf(a) == {vm.copies[i][2] : i \in {k \in DOMAIN vm.copies : vm.copies[k][1] = a}}

\* C27: after a nursery collection every tenured slot that pointed to a
\* nursery object points to the copy of that object, and no card of tenured
\* space has its points-to-nursery bit set.
C27_TenuredSlotsFollowCopies ==
  AfterNurseryCollection =>
    /\ \A r \in vm.young_refs : CopyOf(r[3]) = {vm.mem[r[1]].slots[r[2]].v}
    /\ \A a \in tenured_start .. (tenured_end - 1) :
         vm.cards[a] \cap card_points_to_nursery = {}

\* the events of the trace that process an element
ElemAt(p) == p \in DOMAIN vm.trace /\ vm.trace[p].k = "elem"
\* p and q process elements of one activation of a quotation, q the next
\* after p: nothing between them ran below the activation or processed
\* another of its elements
NextOfActivation(p, q) ==
  /\ ElemAt(p) /\ ElemAt(q) /\ p < q
  /\ vm.trace[q].a = vm.trace[p].a
  /\ vm.trace[q].d = vm.trace[p].d
  /\ \A m \in (p + 1) .. (q - 1) :
       /\ vm.trace[m].d >= vm.trace[p].d
       /\ ~(ElemAt(m) /\ vm.trace[m].a = vm.trace[p].a /\ vm.trace[m].d = vm.trace[p].d)
\* the 0-based indices at which the elements of a quotation start: the
\* second cell of a primitive call or a declaration is no element
RECURSIVE ElementStarts(_, _)
ElementStarts(body, i) ==
  IF i > Len(body) THEN << >>
  ELSE IF i < Len(body)
          /\ \/ body[i].tag = "byte_array" /\ body[i + 1] = W("w_do_primitive")
             \/ body[i].tag = "array" /\ body[i + 1] = W("w_declare")
    THEN << i - 1 >> \o ElementStarts(body, i + 2)
  ELSE << i - 1 >> \o ElementStarts(body, i + 1)
\* the indices the host's quotation was processed at, in the order of the trace
RECURSIVE TopLevelIndices(_)
TopLevelIndices(p) ==
  IF p > Len(vm.trace) THEN << >>
  ELSE IF ElemAt(p) /\ vm.trace[p].d = 0 /\ vm.trace[p].a = Adr(ArrayOf(run.prog))
    THEN << vm.trace[p].i >> \o TopLevelIndices(p + 1)
  ELSE TopLevelIndices(p + 1)

\* C28: the elements of a quotation take effect in index order: an element
\* is processed after its predecessors and once; when element i is a word,
\* the word is executed next and everything it enqueues runs on top of the
\* saved rest of the quotation, so it is complete when element i+1 is
\* processed; a quotation the host ran to the end had every element processed
\* exactly once, in order.
C28_ElementsInOrder ==
  /\ \A p, q \in DOMAIN vm.trace :
       NextOfActivation(p, q) =>
         \/ vm.trace[q].i > vm.trace[p].i
         \/ vm.trace[q].i = 0
  /\ \A p \in DOMAIN vm.trace :
       (ElemAt(p) /\ vm.trace[p].c.tag = "word" /\ p < Len(vm.trace)) =>
         /\ vm.trace[p + 1].k = "exec"
         /\ vm.trace[p + 1].c = vm.trace[p].c
  /\ \A p, q \in DOMAIN vm.trace :
       (NextOfActivation(p, q) /\ vm.trace[p].c.tag = "word" /\ vm.trace[q].i > vm.trace[p].i) =>
         \A m \in (p + 1) .. (q - 1) : vm.trace[m].d > vm.trace[p].d
  /\ (Idle /\ run.prog \in OrderPrograms) =>
       TopLevelIndices(1) = ElementStarts(QuotBodies[run.prog], 1)
\* [ 7 0 fixnum-mod 8 ] has run: the word fixnum-mod enqueued the error
\* handler's quotation, whose element was processed before the element 8
C28_Witness ==
  /\ Idle
  /\ run.prog = "q_mod0"
  /\ \E p, q \in DOMAIN vm.trace :
       /\ NextOfActivation(p, q)
       /\ vm.trace[p].c = W("w_fixnum_mod")
       /\ vm.trace[q].c = Fix(8)
       /\ \E m \in (p + 1) .. (q - 1) : ElemAt(m) /\ vm.trace[m].a # vm.trace[p].a

\* what the execution of the word w is to do
HasHandler(w) == WordNames[w] \in DOMAIN HandlerTable
HasSubprimitive(w) == to_boolean(slot_of(vm, Adr(w), 5))
ActionFor(w) ==
  IF HasHandler(w) THEN "handler"
  ELSE IF HasSubprimitive(w) THEN "primitive"
  ELSE "definition"
\* what the execution of the word at address a did
ActionsOf(a) ==
  {vm.chosen[i][2] : i \in {k \in DOMAIN vm.chosen : vm.chosen[k][1].v = a}}
    \cup (IF a = Adr("w_sub") /\ vm.prims # << >> THEN {"primitive"} ELSE {})

\* C29: the execution of a word does exactly one of three things: it runs
\* the handler if the word has one, else it dispatches the primitive named by
\* the subprimitive byte array if the word has one, else it interprets the
\* quotation definition.
C29_OneOfThree ==
  (Idle /\ run.prog \in ExecutedWords) =>
     ActionsOf(Adr(run.prog)) = {ActionFor(run.prog)}

\* the element after the one of trace event e, in the same array
ElementAfter(e) ==
  LET elements == ObjAt(vm, e.a)
  IN IF e.i + 2 \in DOMAIN elements.slots THEN elements.slots[e.i + 2] ELSE BadCell
InPattern(e) ==
  \/ e.c.tag = "byte_array" /\ ElementAfter(e) = SO(vm, "JIT_PRIMITIVE_WORD")
  \/ e.c.tag = "array" /\ ElementAfter(e) = SO(vm, "JIT_DECLARE_WORD")
\* trace positions of the elements that are objects of some type, not words,
\* not wrappers, not part of a primitive call or a declaration
PlainElements ==
  {j \in DOMAIN vm.trace :
     LET e == vm.trace[j]
     IN e.k = "elem" /\ e.c.tag \in DOMAIN TagNumber
        /\ e.c.tag \notin {"word", "wrapper"} /\ ~InPattern(e)}
PushesOf(j) == {m \in DOMAIN vm.literals : vm.literals[m].j = j}

\* C30: every element of an executed quotation that is not a word, not a
\* wrapper and not part of a primitive-call or declare pattern is pushed on
\* the data stack exactly once, whatever its type.
C30_EveryOtherElementPushed ==
  \A j \in PlainElements :
     /\ Cardinality(PushesOf(j)) = 1
     /\ \A m \in PushesOf(j) :
          /\ vm.literals[m].n1 = vm.literals[m].n0 + 1
          /\ vm.literals[m].top = vm.trace[j].c

\* the call of dip, 2dip or 3dip the host made: the quotation, the values
\* saved, the stack beneath them
DipCall == run.prog \in DOMAIN DipCount
DipQuot == Last(run.ds0)
DipSaved ==
  SubSeq(run.ds0, Len(run.ds0) - DipCount[run.prog], Len(run.ds0) - 1)
DipRest == SubSeq(run.ds0, 1, Len(run.ds0) - DipCount[run.prog] - 1)
\* what the quotation leaves of a stack
QuotEffect(q, st) ==
  CASE q = Q("q_handler") -> st \o << Fix(0 - 1) >>
    [] q = Q("q_drop") -> IF st = << >> THEN st ELSE Front(st)
    [] OTHER -> st
RestorePending == \E i \in DOMAIN vm.tramp : vm.tramp[i].type = "RESTORE_VALUES"

\* C31: dip, 2dip and 3dip take the quotation and the 1, 2 or 3 values
\* beneath it off the stack, run the quotation to its end on what remains,
\* and only then push the saved values back, bottom first.
C31_DipRestoresInOrder ==
  DipCall =>
    /\ (vm.status = "running" /\ RestorePending) =>
          /\ Len(vm.tramp) = 1 => vm.ds = QuotEffect(DipQuot, DipRest)
          /\ Len(vm.tramp) > 1 => vm.ds = DipRest
          /\ vm.tramp[1].cells = DipSaved
    /\ Idle => vm.ds = QuotEffect(DipQuot, DipRest) \o DipSaved
\* 3dip has run [ drop ] beneath three saved values
C31_Witness ==
  /\ Idle
  /\ run.prog = "w_3dip"
  /\ DipQuot = Q("q_drop")
  /\ DipSaved = << Fix(1), Fix(2), Fix(1) >>
  /\ vm.ds = << Fix(1), Fix(2), Fix(1) >>

\* the call of loop the host made: the body and the stack beneath it
LoopCall == run.prog = "w_loop"
LoopBody == Last(run.ds0)
LoopStack == Front(run.ds0)
\* the flags the body yields run after run, and the cells each run uses up
LoopFlags ==
  LET rev == Reverse(LoopStack) IN
  CASE LoopBody = Q("q_nop") -> rev
    [] LoopBody = Q("q_drop") -> [i \in 1 .. (Len(rev) \div 2) |-> rev[2 * i]]
    [] OTHER -> << false_object >>
LoopUses ==
  CASE LoopBody = Q("q_nop") -> 1 [] LoopBody = Q("q_drop") -> 2 [] OTHER -> 0
\* the body yields a truthy flag n times and then f
YieldsThenF(n) ==
  /\ n + 1 \in DOMAIN LoopFlags
  /\ LoopFlags[n + 1] = false_object
  /\ \A i \in 1 .. n : to_boolean(LoopFlags[i])
BodyRuns == Cardinality({i \in DOMAIN vm.calls : vm.calls[i] = LoopBody})
LoopOver == vm.status # "running" \/ vm.tramp = << >>
C32_Counted ==
  \A n \in 0 .. MaxFlags :
    (LoopCall /\ YieldsThenF(n)) =>
      /\ vm.status = "running"
      /\ BodyRuns <= n + 1
      /\ Idle => /\ BodyRuns = n + 1
                 /\ vm.ds = SubSeq(LoopStack, 1, Len(LoopStack) - LoopUses * (n + 1))

\* C32: loop runs its quotation, then pops the top of the stack; a truthy
\* value makes it run the quotation and check again, f ends it.  A body that
\* yields a truthy flag n times and then f is run exactly n + 1 times, the
\* loop ends, and none of the flags is left on the stack.
C32_LoopRunsUntilF == [](C32_Counted) /\ (LoopCall ~> LoopOver)
\* a loop whose body yielded the fixnum 0 and then f has ended
C32_Witness ==
  /\ Idle
  /\ LoopCall
  /\ LoopBody = Q("q_drop")
  /\ YieldsThenF(1)
  /\ LoopFlags[1] = Fix(0)
  /\ BodyRuns = 2

\* the call of a tuple the host made
TupleCall == run.prog = "w_call" /\ Last(run.ds0).tag = "tuple"
CalledTuple == Last(run.ds0)
TupleClass == tuple_class_name(vm, CalledTuple)
TupleStack == Front(run.ds0)
TupleField(i) == slot_of(vm, CalledTuple.v, i + 1)
\* the CALL_CALLABLE item of the tuple has been processed
TupleEntered == vm.calls # << >>
\* what calling c leaves of a stack, for the callables of the image
CallEffect(c, st) ==
  CASE c = Q("q_handler") -> st \o << Fix(0 - 1) >>
    [] c = Q("q_dup") -> IF st = << >> THEN << BadCell >> ELSE Append(st, Last(st))
    [] OTHER -> st

\* C33: calling a composed tuple runs first to its end and then second;
\* calling a curried tuple pushes the captured value and then runs the
\* callable; calling a tuple of another class changes neither the data
\* stack nor the pending work.
C33_TupleCalls ==
  (TupleCall /\ vm.status = "running" /\ TupleEntered) =>
    CASE TupleClass = "composed" ->
           /\ IsPrefix(vm.calls, << CalledTuple, TupleField(1), TupleField(2) >>)
           /\ Len(vm.calls) = 2 => vm.tramp[1].cells = << TupleField(2) >>
           /\ Len(vm.calls) = 3 => vm.literals # << >>
           /\ Idle => vm.ds = CallEffect(TupleField(2), CallEffect(TupleField(1), TupleStack))
      [] TupleClass = "curried" ->
           /\ IsPrefix(vm.calls, << CalledTuple, TupleField(2) >>)
           /\ Len(vm.calls) = 1 =>
                 /\ vm.ds = Append(TupleStack, TupleField(1))
                 /\ vm.tramp = << WorkItem("CALL_CALLABLE", << TupleField(2) >>, 0, 0) >>
           /\ Idle => vm.ds = CallEffect(TupleField(2), Append(TupleStack, TupleField(1)))
      [] OTHER ->
           /\ vm.calls = << CalledTuple >>
           /\ vm.ds = TupleStack
           /\ vm.tramp = << >>
\* a composed tuple has been called: first pushed -1, then second duplicated it
C33_Witness ==
  /\ Idle
  /\ TupleCall
  /\ TupleClass = "composed"
  /\ vm.ds = TupleStack \o << Fix(0 - 1), Fix(0 - 1) >>

\* the loop of run_trampoline, run until the work stack is empty
RECURSIVE run_trampoline_to_end(_)
run_trampoline_to_end(S) ==
  IF S.status = "running" /\ S.tramp # << >>
  THEN run_trampoline_to_end(run_trampoline_step(S))
  ELSE S
\* the VM as a CallCallable work item for q leaves it, from the stack st
ViaWorkItem(q, st) ==
  run_trampoline_to_end(
    push_callable_work(TrampolineGuard([vm EXCEPT !.ds = st, !.execs = << >>]), q))
RecoverCall == run.prog = "w_recover"
TryQuot == run.ds0[Len(run.ds0) - 1]
TryStack == SubSeq(run.ds0, 1, Len(run.ds0) - 2)
\* the host's call of call on the same quotation agrees with ViaWorkItem
ViaCallAgrees ==
  (Idle /\ run.prog = "w_call" /\ run.n = 2) =>
     /\ vm.ds = ViaWorkItem(Last(run.ds0), Front(run.ds0)).ds
     /\ Tail(vm.execs) = ViaWorkItem(Last(run.ds0), Front(run.ds0)).execs

\* C34: a quotation that a built-in handler running inside the trampoline
\* invokes through call_callable (recover's try quotation) has the effect it
\* has when executed through a CallCallable work item: the same words in
\* the same order, the same data stack at the end.
C34_CallCallableAsWorkItem ==
  (Idle /\ RecoverCall) =>
     /\ vm.ds = ViaWorkItem(TryQuot, TryStack).ds
     /\ Tail(vm.execs) = ViaWorkItem(TryQuot, TryStack).execs

\* the stack each dispatcher leaves for the word of the host's call
StackBy(by) == ByDispatcher([vm EXCEPT !.ds = run.ds0], by, run.prog).S.ds

\* C35: a built-in word has the same stack effect whichever dispatcher
\* executes it: the trampoline dispatcher, the direct handler-id dispatcher
\* and the name-hashed subprimitive dispatcher leave the same data stack
\* for every input stack.
C35_DispatchersAgree ==
  run.prog \in DOMAIN ShuffleIds =>
    \A by \in Dispatchers : StackBy(by) = vm.ds

\* C36: a nursery collection is started only when aging's free space at
\* that moment is at least the nursery's occupancy, and an aging collection
\* only when tenured fragmentation is not high; otherwise the driver has
\* escalated before starting.
C36_StartedOnlyIfRoom ==
  \A i \in DOMAIN vm.gc_starts :
    LET s == vm.gc_starts[i] IN
    /\ s.op = "COLLECT_NURSERY_OP" => s.aging_free >= s.nursery_occupied
    /\ s.op = "COLLECT_AGING_OP" => ~s.fragmented
\* a nursery collection was asked for with less room in aging than the
\* nursery holds, and an aging collection was started instead
C36_Witness ==
  /\ Len(vm.gc_ops) >= 2
  /\ vm.gc_ops[1] = "COLLECT_NURSERY_OP"
  /\ vm.gc_starts # << >>
  /\ vm.gc_starts[1].op = "COLLECT_AGING_OP"
  /\ vm.gc_starts[1].aging_free < vm.gc_starts[1].nursery_occupied

GcReturns == vm.current_gc # "none" /\ vm'.current_gc = "none" /\ vm'.status = "running"
PromotedToTenured(S) == \E i \in DOMAIN S.copies : tenured_contains_p(S.copies[i][2])

\* C37: whenever gc() returns after a collection, whatever op it was
\* started with, tenured fragmentation is not high: the largest free block
\* of tenured space exceeds the sizes of the nursery and of aging together.
C37_NotFragmentedAtReturn ==
  [][GcReturns => ~high_fragmentation_p(vm')]_vars
\* gc() asked for a nursery or an aging collection has returned after
\* objects were copied into tenured space
C37_Witness ==
  /\ Idle
  /\ vm.gc_ops # << >>
  /\ vm.gc_ops[1] \in {"COLLECT_NURSERY_OP", "COLLECT_AGING_OP"}
  /\ PromotedToTenured(vm)
  /\ ~high_fragmentation_p(vm)

\* C38: whenever gc() returns after a collection of any op, the nursery's
\* frontier equals its start and the code heap's points-to-nursery remembered
\* set is empty
C38_NurseryEmptyAtReturn ==
  [][GcReturns => /\ vm'.nursery_here = nursery_start
                  /\ vm'.points_to_nursery = {}]_vars

\* a collection that found objects in the nursery and code blocks in the
\* remembered set has returned
C38_Witness ==
  /\ Idle
  /\ run.prog = "none"
  /\ vm.gc_starts # << >>
  /\ vm.gc_starts[1].nursery_occupied > 0
  /\ vm.gc_starts[1].code_blocks # {}
  /\ vm.nursery_here = nursery_start
  /\ vm.points_to_nursery = {}

\* C39: tenured allot(size) returns null only when no free block of at least
\* the aligned size is held in any small bucket or in the large-block set,
\* and succeeds whenever such a block is held
C39_NullOnlyWithoutFit ==
  vm.region.allotted.at =>
    (vm.region.allotted.a = 0 <=> ~vm.region.allotted.existed)

\* an allot that succeeded had a block of at least the aligned size to take
C39_SuccessHadFit ==
  vm.region.allotted.at /\ vm.region.allotted.a # 0 => vm.region.allotted.existed

\* C40: after any sequence of allot, free, sweep and compact free_space is the
\* sum of the sizes of the listed blocks, free_block_count is their number,
\* every listed block lies inside the region, no two overlap and each small
\* bucket holds only blocks of its own size
RECURSIVE SumListed(_, _)
SumListed(R, bs) == IF bs = << >> THEN 0 ELSE R.heap[bs[1]].size + SumListed(R, Tail(bs))
C40_FreeListConsistent ==
  LET R == vm.region
      bs == Listed(R)
  IN /\ R.free_space = SumListed(R, bs)
     /\ R.free_block_count = Len(bs)
     /\ \A i \in DOMAIN bs : bs[i] >= RegionStart /\ bs[i] + R.heap[bs[i]].size <= RegionEnd
     /\ \A i, j \in DOMAIN bs :
          i # j => Covered(R, {bs[i]}) \cap Covered(R, {bs[j]}) = {}
     /\ \A k \in DOMAIN R.small_blocks : \A i \in DOMAIN R.small_blocks[k] :
          R.heap[R.small_blocks[k][i]].size = k * RegionAlignment

\* blocks are listed in a small bucket and in the large-block set, after an
\* allot that carved a page, a free and a sweep that left live blocks behind
C40_Witness ==
  /\ vm.region.large_blocks # << >>
  /\ \E k \in DOMAIN vm.region.small_blocks : Len(vm.region.small_blocks[k]) >= 2
  /\ AllottedBlocks(vm.region) # {}
  /\ vm.region.free_block_count >= 3
====
